---- MODULE Spec2Model ----
(***************************************************************************)
(* Model of the rule-based document-to-HTML converter:                     *)
(*   DocumentParser  (src/document-parser.js)                              *)
(*   SectionDetector (src/unnamed/part_000)                                *)
(* Text is a sequence of one-character strings, so that the classifiers    *)
(* and the id generator work on characters as the JavaScript does.  The    *)
(* HTML under construction is a sequence of tokens (records): one token    *)
(* per element or marker that the cleanup and TOC regular expressions of   *)
(* the source tell apart.                                                  *)
(***************************************************************************)
EXTENDS Integers, Sequences, FiniteSets, TLC

(***************************************************************************)
(* Characters and strings                                                  *)
(***************************************************************************)
LowerSeq == <<"a","b","c","d","e","f","g","h","i","j","k","l","m","n","o","p","q","r","s","t","u","v","w","x","y","z">>
UpperSeq == <<"A","B","C","D","E","F","G","H","I","J","K","L","M","N","O","P","Q","R","S","T","U","V","W","X","Y","Z">>
DigitSeq == <<"0","1","2","3","4","5","6","7","8","9">>

Range(s) == {s[k] : k \in DOMAIN s}

LowerSet == Range(LowerSeq)
UpperSet == Range(UpperSeq)
DigitSet == Range(DigitSeq)

\* \s of the regular expressions, within one line
IsWs(c) == c \in {" ", "\t"}

ToUpperChar(c) == IF c \in LowerSet THEN UpperSeq[CHOOSE k \in 1..26 : LowerSeq[k] = c] ELSE c
ToLowerChar(c) == IF c \in UpperSet THEN LowerSeq[CHOOSE k \in 1..26 : UpperSeq[k] = c] ELSE c

toUpperCase(s) == [k \in 1..Len(s) |-> ToUpperChar(s[k])]
toLowerCase(s) == [k \in 1..Len(s) |-> ToLowerChar(s[k])]

Drop(s, n) == IF n >= Len(s) THEN <<>> ELSE SubSeq(s, n + 1, Len(s))
Take(s, n) == IF n >= Len(s) THEN s ELSE SubSeq(s, 1, n)

RECURSIVE TrimLeft(_)
TrimLeft(s) == IF s # <<>> /\ IsWs(s[1]) THEN TrimLeft(Tail(s)) ELSE s

RECURSIVE TrimRight(_)
TrimRight(s) == IF s # <<>> /\ IsWs(s[Len(s)]) THEN TrimRight(SubSeq(s, 1, Len(s) - 1)) ELSE s

trim(s) == TrimRight(TrimLeft(s))

\* s has p at position k
MatchAt(s, p, k) == k >= 1 /\ k + Len(p) - 1 <= Len(s) /\ SubSeq(s, k, k + Len(p) - 1) = p

startsWith(s, p) == MatchAt(s, p, 1)
endsWith(s, p) == Len(p) <= Len(s) /\ MatchAt(s, p, Len(s) - Len(p) + 1)
includes(s, p) == \E k \in 1..(Len(s) + 1) : MatchAt(s, p, k)

\* first position >= from where p occurs in s, 0 when there is none
IndexOfFrom(s, p, from) ==
    LET hits == {k \in from..(Len(s) + 1) : MatchAt(s, p, k)}
    IN  IF hits = {} THEN 0 ELSE CHOOSE k \in hits : \A j \in hits : k <= j

\* String.prototype.split(/\s+/)
RECURSIVE SplitWsFrom(_, _, _, _)
SplitWsFrom(s, k, cur, acc) ==
    IF k > Len(s) THEN Append(acc, cur)
    ELSE IF IsWs(s[k])
         THEN LET rest == {j \in k..Len(s) : ~IsWs(s[j])}
                  nxt == IF rest = {} THEN Len(s) + 1
                         ELSE CHOOSE j \in rest : \A m \in rest : j <= m
              IN  SplitWsFrom(s, nxt, <<>>, Append(acc, cur))
         ELSE SplitWsFrom(s, k + 1, Append(cur, s[k]), acc)

SplitWs(s) == SplitWsFrom(s, 1, <<>>, <<>>)

\* number of digits of s from position k on
RECURSIVE DigitsLen(_, _)
DigitsLen(s, k) == IF k <= Len(s) /\ s[k] \in DigitSet THEN 1 + DigitsLen(s, k + 1) ELSE 0

RECURSIVE WsLen(_, _)
WsLen(s, k) == IF k <= Len(s) /\ IsWs(s[k]) THEN 1 + WsLen(s, k + 1) ELSE 0

\* length of the match of /^(\d+\.){depth}\s+/ in s read from position k, 0 for no match
RECURSIVE NumGroups(_, _, _)
NumGroups(s, k, depth) ==
    IF depth = 0
    THEN IF WsLen(s, k) > 0 THEN k - 1 + WsLen(s, k) ELSE 0
    ELSE LET d == DigitsLen(s, k)
         IN  IF d > 0 /\ k + d <= Len(s) /\ s[k + d] = "."
             THEN NumGroups(s, k + d + 1, depth - 1)
             ELSE 0

\* length of the match of /^\d+(\.\d+)*\.\s+/, 0 for no match
RECURSIVE NumPrefixFrom(_, _)
NumPrefixFrom(s, k) ==
    LET d == DigitsLen(s, k)
    IN  IF d = 0 \/ k + d > Len(s) \/ s[k + d] # "." THEN 0
        ELSE IF WsLen(s, k + d + 1) > 0 THEN k + d + WsLen(s, k + d + 1)
        ELSE NumPrefixFrom(s, k + d + 1)

(***************************************************************************)
(* DocumentParser: the line classifier                                     *)
(***************************************************************************)
STARS == <<"*","*">>
STRONG_OPEN == <<"<","S","T","R","O","N","G",">">>
STRONG_CLOSE == <<"<","/","S","T","R","O","N","G",">">>

\* /\*\*(.*?)\*\*/.test(text) || /<strong>(.*?)<\/strong>/i.test(text)
hasBoldFormatting(text) ==
    \/ \E k \in 1..Len(text) : MatchAt(text, STARS, k) /\ IndexOfFrom(text, STARS, k + 2) > 0
    \/ \E k \in 1..Len(text) :
          /\ MatchAt(toUpperCase(text), STRONG_OPEN, k)
          /\ IndexOfFrom(toUpperCase(text), STRONG_CLOSE, k + 8) > 0

\* text.replace(/\*\*.*?\*\*|<strong>.*?<\/strong>/gi, '')
RECURSIVE RemoveBoldFrom(_, _)
RemoveBoldFrom(s, k) ==
    IF k > Len(s) THEN <<>>
    ELSE LET u  == toUpperCase(s)
             e1 == IF MatchAt(s, STARS, k) THEN IndexOfFrom(s, STARS, k + 2) ELSE 0
             e2 == IF MatchAt(u, STRONG_OPEN, k) THEN IndexOfFrom(u, STRONG_CLOSE, k + 8) ELSE 0
         IN  IF e1 > 0 THEN RemoveBoldFrom(s, e1 + 2)
             ELSE IF e2 > 0 THEN RemoveBoldFrom(s, e2 + 9)
             ELSE <<s[k]>> \o RemoveBoldFrom(s, k + 1)

beforeAfterContext(text) == trim(RemoveBoldFrom(text, 1))

\* /^[A-Z\s\-:]+$/
CapsOnly(text) == text # <<>> /\ \A k \in 1..Len(text) : text[k] \in UpperSet \/ IsWs(text[k]) \/ text[k] \in {"-", ":"}

\* words.filter(word => word.length > 0 && /^[A-Z]/.test(word) && word.length > 2)
titleCaseWords(words) == {k \in 1..Len(words) : Len(words[k]) > 2 /\ words[k][1] \in UpperSet}

\* titleCaseWords.length >= words.length * 0.6, for 2..10 words
IsTitleCase(text) ==
    LET words == SplitWs(text)
    IN  /\ Len(words) >= 2 /\ Len(words) <= 10
        /\ 10 * Cardinality(titleCaseWords(words)) >= 6 * Len(words)

isHeading(line) ==
    LET text == trim(line)
        n == Len(text)
    IN  IF n > 150 THEN FALSE
        ELSE IF hasBoldFormatting(text) /\ n > 5 /\ n < 100
             THEN Len(beforeAfterContext(text)) <= 10
        ELSE \/ n > 5 /\ text = toUpperCase(text) /\ CapsOnly(text) /\ Len(SplitWs(text)) <= 8
             \/ (NumGroups(text, 1, 1) > 0 /\ NumGroups(text, 1, 1) < n
                   /\ text[NumGroups(text, 1, 1) + 1] \in UpperSet)
             \/ endsWith(text, <<"?">>) /\ n > 10 /\ n < 80
             \/ IsTitleCase(text)
             \/ includes(text, <<"_">>) /\ n > 0 /\ text[1] \in UpperSet
             \/ endsWith(text, <<":">>) /\ n > 5 /\ n < 80 /\ text[1] \in UpperSet

\* text.replace(/\*\*|<\/?strong>/gi, '')
RECURSIVE RemoveBoldMarks(_, _)
RemoveBoldMarks(s, k) ==
    IF k > Len(s) THEN <<>>
    ELSE LET u == toUpperCase(s)
         IN  IF MatchAt(s, STARS, k) THEN RemoveBoldMarks(s, k + 2)
             ELSE IF MatchAt(u, STRONG_OPEN, k) THEN RemoveBoldMarks(s, k + 8)
             ELSE IF MatchAt(u, STRONG_CLOSE, k) THEN RemoveBoldMarks(s, k + 9)
             ELSE <<s[k]>> \o RemoveBoldMarks(s, k + 1)

\* short phrase -> 2, medium -> 3, long -> 4
LevelByWords(words) == IF Len(words) <= 3 THEN 2 ELSE IF Len(words) <= 6 THEN 3 ELSE 4

\* getHeadingLevel with "1. Title" read as a level-1 heading
getHeadingLevelFromOne(line) == IF NumGroups(trim(line), 1, 1) > 0 THEN 1 ELSE 2

getHeadingLevel(line) ==
    LET text == trim(line)
    IN  IF NumGroups(text, 1, 1) > 0 THEN 2
        ELSE IF NumGroups(text, 1, 2) > 0 THEN 3
        ELSE IF NumGroups(text, 1, 3) > 0 THEN 4
        ELSE IF hasBoldFormatting(text) /\ Len(beforeAfterContext(text)) <= 5
             THEN LevelByWords(SplitWs(RemoveBoldMarks(text, 1)))
        ELSE IF endsWith(text, <<"?">>) THEN 3
        ELSE IF text = toUpperCase(text) /\ CapsOnly(text) THEN LevelByWords(SplitWs(text))
        ELSE IF IsTitleCase(text) THEN LevelByWords(SplitWs(text))
        ELSE IF endsWith(text, <<":">>) THEN 3
        ELSE IF includes(text, <<"_">>) THEN 3
        ELSE 2

\* s.replace(/\*\*(.*?)\*\*/g, '<strong>$1</strong>')
RECURSIVE BoldToStrong(_, _)
BoldToStrong(s, k) ==
    IF k > Len(s) THEN <<>>
    ELSE LET e == IF MatchAt(s, STARS, k) THEN IndexOfFrom(s, STARS, k + 2) ELSE 0
         IN  IF e > 0
             THEN <<"<","s","t","r","o","n","g",">">> \o SubSeq(s, k + 2, e - 1)
                    \o <<"<","/","s","t","r","o","n","g",">">> \o BoldToStrong(s, e + 2)
             ELSE <<s[k]>> \o BoldToStrong(s, k + 1)

\* s.replace(/<strong>(.*?)<\/strong>/gi, '<strong>$1</strong>'): lower-cases the tag names
RECURSIVE NormalizeStrong(_, _)
NormalizeStrong(s, k) ==
    IF k > Len(s) THEN <<>>
    ELSE LET u == toUpperCase(s)
             e == IF MatchAt(u, STRONG_OPEN, k) THEN IndexOfFrom(u, STRONG_CLOSE, k + 8) ELSE 0
         IN  IF e > 0
             THEN <<"<","s","t","r","o","n","g",">">> \o SubSeq(s, k + 8, e - 1)
                    \o <<"<","/","s","t","r","o","n","g",">">> \o NormalizeStrong(s, e + 9)
             ELSE <<s[k]>> \o NormalizeStrong(s, k + 1)

\* s.replace(/_{2,}/g, '')
RECURSIVE RemoveUnderscoreRuns(_, _)
RemoveUnderscoreRuns(s, k) ==
    IF k > Len(s) THEN <<>>
    ELSE IF s[k] = "_" /\ k < Len(s) /\ s[k + 1] = "_"
         THEN LET rest == {j \in k..Len(s) : s[j] # "_"}
                  nxt == IF rest = {} THEN Len(s) + 1 ELSE CHOOSE j \in rest : \A m \in rest : j <= m
              IN  RemoveUnderscoreRuns(s, nxt)
         ELSE <<s[k]>> \o RemoveUnderscoreRuns(s, k + 1)

cleanHeadingText(line) ==
    LET t0 == trim(line)
        t1 == Drop(t0, NumPrefixFrom(t0, 1))
        t2 == NormalizeStrong(BoldToStrong(t1, 1), 1)
        t3 == RemoveUnderscoreRuns(t2, 1)
        t4 == IF endsWith(t3, <<":">>) THEN SubSeq(t3, 1, Len(t3) - 1) ELSE t3
    IN  trim(t4)

\* /^[-*]\s+/.test(line) || /^\d+\.\s+/.test(line)   (the bullet character is left out of the alphabet)
isListItem(line) ==
    \/ Len(line) >= 2 /\ line[1] \in {"-", "*"} /\ IsWs(line[2])
    \/ NumGroups(line, 1, 1) > 0

\* /^\d+\./.test(line)
getListType(line) ==
    IF DigitsLen(line, 1) > 0 /\ DigitsLen(line, 1) < Len(line) /\ line[DigitsLen(line, 1) + 1] = "."
    THEN "ordered" ELSE "unordered"

\* line.replace(/^[-*\d+.]\s+/, '').trim(): the class matches ONE character
cleanListItem(line) ==
    IF Len(line) >= 2 /\ (line[1] \in {"-", "*", "+", "."} \/ line[1] \in DigitSet) /\ IsWs(line[2])
    THEN trim(Drop(line, 1 + WsLen(line, 2)))
    ELSE trim(line)

IdMaxLen == 50

\* .replace(/[^a-z0-9\s-]/g, '')
IdKeep(s) == SelectSeq(s, LAMBDA c : c \in LowerSet \/ c \in DigitSet \/ IsWs(c) \/ c = "-")

\* .replace(/\s+/g, '-')
RECURSIVE IdDash(_)
IdDash(s) ==
    IF s = <<>> THEN <<>>
    ELSE IF IsWs(s[1]) THEN <<"-">> \o IdDash(Drop(s, WsLen(s, 1)))
    ELSE <<s[1]>> \o IdDash(Tail(s))

\* generateId without .substring(0, 50)
generateIdUncut(text) == IdDash(IdKeep(toLowerCase(text)))

generateId(text) == Take(IdDash(IdKeep(toLowerCase(text))), IdMaxLen)

(***************************************************************************)
(* SectionDetector                                                         *)
(***************************************************************************)
NoSection == "none"

sectionMappings == <<
    <<<<"T","A","B","L","E"," ","O","F"," ","C","O","N","T","E","N","T","S">>, "toc">>,
    <<<<"T","O","C">>, "toc">>,
    <<<<"C","O","N","T","E","N","T","S">>, "toc">>,
    <<<<"I","N","D","E","X">>, "toc">>,
    <<<<"<","T","A","B","L","E","-","O","F","-","C","O","N","T","E","N","T","S",">">>, "toc">>,
    <<<<"<","T","O","C",">">>, "toc">>,
    <<<<"K","E","Y"," ","T","A","K","E","A","W","A","Y","S">>, "key-takeaways">>,
    <<<<"K","E","Y"," ","P","O","I","N","T","S">>, "key-takeaways">>,
    <<<<"M","A","I","N"," ","P","O","I","N","T","S">>, "key-takeaways">>,
    <<<<"S","U","M","M","A","R","Y"," ","P","O","I","N","T","S">>, "key-takeaways">>,
    <<<<"H","I","G","H","L","I","G","H","T","S">>, "key-takeaways">>,
    <<<<"I","M","P","O","R","T","A","N","T"," ","P","O","I","N","T","S">>, "key-takeaways">>,
    <<<<"<","K","E","Y","-","T","A","K","E","A","W","A","Y","S",">">>, "key-takeaways">>,
    <<<<"<","K","E","Y","-","P","O","I","N","T","S",">">>, "key-takeaways">>,
    <<<<"C","A","L","L"," ","T","O"," ","A","C","T","I","O","N">>, "cta">>,
    <<<<"C","T","A">>, "cta">>,
    <<<<"C","T","A"," ","1">>, "cta1">>,
    <<<<"C","T","A"," ","2">>, "cta2">>,
    <<<<"G","E","T"," ","S","T","A","R","T","E","D">>, "cta">>,
    <<<<"C","O","N","T","A","C","T"," ","U","S">>, "cta">>,
    <<<<"R","E","A","D","Y"," ","T","O"," ","S","T","A","R","T">>, "cta">>,
    <<<<"W","A","N","T"," ","T","O"," ","B","U","I","L","D">>, "cta">>,
    <<<<"N","E","E","D"," ","H","E","L","P">>, "cta">>,
    <<<<"G","E","T"," ","I","N"," ","T","O","U","C","H">>, "cta">>,
    <<<<"<","C","A","L","L","-","T","O","-","A","C","T","I","O","N",">">>, "cta">>,
    <<<<"<","C","T","A",">">>, "cta">>,
    <<<<"F","A","Q">>, "faq">>,
    <<<<"F","R","E","Q","U","E","N","T","L","Y"," ","A","S","K","E","D"," ","Q","U","E","S","T","I","O","N","S">>, "faq">>,
    <<<<"C","O","M","M","O","N"," ","Q","U","E","S","T","I","O","N","S">>, "faq">>,
    <<<<"Q","&","A">>, "faq">>,
    <<<<"Q","U","E","S","T","I","O","N","S">>, "faq">>,
    <<<<"<","F","A","Q",">">>, "faq">>,
    <<<<"S","T","E","P","S">>, "steps">>,
    <<<<"S","T","E","P"," ","B","Y"," ","S","T","E","P">>, "steps">>,
    <<<<"P","R","O","C","E","S","S">>, "steps">>,
    <<<<"H","O","W"," ","T","O">>, "steps">>,
    <<<<"T","U","T","O","R","I","A","L">>, "steps">>,
    <<<<"G","U","I","D","E">>, "steps">>,
    <<<<"<","S","T","E","P","S",">">>, "steps">>,
    <<<<"<","P","R","O","C","E","S","S",">">>, "steps">>,
    <<<<"C","O","M","P","A","R","I","S","O","N">>, "comparison">>,
    <<<<"V","S">>, "comparison">>,
    <<<<"P","R","O","S"," ","A","N","D"," ","C","O","N","S">>, "pros-cons">>,
    <<<<"A","D","V","A","N","T","A","G","E","S"," ","A","N","D"," ","D","I","S","A","D","V","A","N","T","A","G","E","S">>, "pros-cons">>,
    <<<<"B","E","N","E","F","I","T","S"," ","A","N","D"," ","D","R","A","W","B","A","C","K","S">>, "pros-cons">>,
    <<<<"<","C","O","M","P","A","R","I","S","O","N",">">>, "comparison">>,
    <<<<"<","P","R","O","S","-","A","N","D","-","C","O","N","S",">">>, "pros-cons">>,
    <<<<"B","E","N","E","F","I","T","S">>, "bullet-list">>,
    <<<<"F","E","A","T","U","R","E","S">>, "bullet-list">>,
    <<<<"A","D","V","A","N","T","A","G","E","S">>, "bullet-list">>,
    <<<<"R","E","Q","U","I","R","E","M","E","N","T","S">>, "bullet-list">>,
    <<<<"S","P","E","C","I","F","I","C","A","T","I","O","N","S">>, "bullet-list">>,
    <<<<"<","B","E","N","E","F","I","T","S",">">>, "bullet-list">>,
    <<<<"<","F","E","A","T","U","R","E","S",">">>, "bullet-list">>,
    <<<<"<","I","G","N","O","R","E",">">>, "ignore">>,
    <<<<"T","A","B","L","E">>, "table">>,
    <<<<"[","T","A","B","L","E"," ","S","T","A","R","T","]">>, "table">>,
    <<<<"<","T","A","B","L","E",">">>, "table">>,
    <<<<"D","A","T","A"," ","T","A","B","L","E">>, "table">>,
    <<<<"C","O","M","P","A","R","I","S","O","N"," ","T","A","B","L","E">>, "table">>
>>

SectionTypes == {sectionMappings[k][2] : k \in DOMAIN sectionMappings}

\* text.startsWith('<') && text.endsWith('>') && !text.includes('END>')
isStartTag(text) ==
    startsWith(text, <<"<">>) /\ endsWith(text, <<">">>) /\ ~includes(text, <<"E","N","D",">">>)

\* text.startsWith('<') && text.includes('END>') || text.includes('[TABLE END]') || text.includes('</TABLE>')
isEndTag(text) ==
    \/ startsWith(text, <<"<">>) /\ includes(text, <<"E","N","D",">">>)
    \/ includes(text, <<"[","T","A","B","L","E"," ","E","N","D","]">>)
    \/ includes(text, <<"<","/","T","A","B","L","E",">">>)

\* this.sectionMappings[tag] || null
getSectionTypeFromTag(tag) ==
    LET hits == {k \in DOMAIN sectionMappings : sectionMappings[k][1] = tag}
    IN  IF hits = {} THEN NoSection ELSE sectionMappings[CHOOSE k \in hits : TRUE][2]

\* the loop over Object.entries(this.sectionMappings): the first keyword, in insertion order, that matches
NearMatch(normalizedText, keyword) ==
    \/ normalizedText = keyword
    \/ normalizedText = keyword \o <<":">>
    \/ normalizedText = keyword \o <<".">>
    \/ Len(normalizedText) <= Len(keyword) + 5 /\ includes(normalizedText, keyword)

\* detectSectionType with plain substring matching, without the length margin
detectSectionTypeBySubstring(headingText) ==
    LET normalizedText == trim(toUpperCase(headingText))
        hits == {k \in DOMAIN sectionMappings : includes(normalizedText, sectionMappings[k][1])}
    IN  IF hits = {} THEN NoSection ELSE sectionMappings[CHOOSE k \in hits : \A j \in hits : k <= j][2]

detectSectionType(headingText) ==
    LET normalizedText == trim(toUpperCase(headingText))
        hits == {k \in DOMAIN sectionMappings : NearMatch(normalizedText, sectionMappings[k][1])}
    IN  IF isStartTag(normalizedText) THEN getSectionTypeFromTag(normalizedText)
        ELSE IF getSectionTypeFromTag(normalizedText) # NoSection THEN getSectionTypeFromTag(normalizedText)
        ELSE IF hits = {} THEN NoSection
        ELSE sectionMappings[CHOOSE k \in hits : \A j \in hits : k <= j][2]

(***************************************************************************)
(* HTML tokens.  k is the kind of the token:                               *)
(*   "h"    <h{lv} id="{id}">{tx}</h{lv}>   (id = <<>>: no id attribute)   *)
(*   "p"    <p>{tx}</p>            "li"   <li>{tx}</li>                    *)
(*   "nl"   a newline              "sp"   a blank                          *)
(*   "ulopen", "olopen", "ulclose", "olclose"  list containers             *)
(*   "toc"  the blog_index_cover block: ids[n] is the href of entry n      *)
(*          (<<>> for an entry without anchor), items[n] its text, lv = 1  *)
(*          when the list carries style="display: none;"                   *)
(*   "placeholder"   <!-- TOC_PLACEHOLDER -->                              *)
(*   "faqopen"  <div class="faq_blog">     "divclose"  </div>              *)
(*   "table"  the travel_table block: items = header cells, rows = data    *)
(*   other kinds: one section template with its fields in items/ids/rows.  *)
(* White space inside a section template is not represented.               *)
(***************************************************************************)
Tok(k, lv, id, tx, items, ids, rows) ==
    [k |-> k, lv |-> lv, id |-> id, tx |-> tx, items |-> items, ids |-> ids, rows |-> rows]

Mark(k) == Tok(k, 0, <<>>, <<>>, <<>>, <<>>, <<>>)
NL == Mark("nl")
SP == Mark("sp")
H(lv, id, tx) == Tok("h", lv, id, tx, <<>>, <<>>, <<>>)
P(tx) == Tok("p", 0, <<>>, tx, <<>>, <<>>, <<>>)
LI(tx) == Tok("li", 0, <<>>, tx, <<>>, <<>>, <<>>)
Blk(k, items) == Tok(k, 0, <<>>, <<>>, items, <<>>, <<>>)
TOC(hidden, ids, items) == Tok("toc", hidden, <<>>, <<>>, items, ids, <<>>)
PLACEHOLDER == Mark("placeholder")

\* a || b on strings
OrElse(a, b) == IF a # <<>> THEN a ELSE b
\* items[n] || dflt
ItemOr(items, n, dflt) == IF n <= Len(items) THEN OrElse(items[n], dflt) ELSE dflt

Href(id) == <<"#">> \o id

SeqMap(Op(_), s) == [k \in 1..Len(s) |-> Op(s[k])]

RECURSIVE Flatten(_)
Flatten(ss) == IF ss = <<>> THEN <<>> ELSE Head(ss) \o Flatten(Tail(ss))

\* String.prototype.split(c) for a one-character separator
RECURSIVE SplitCharFrom(_, _, _, _, _)
SplitCharFrom(s, c, k, cur, acc) ==
    IF k > Len(s) THEN Append(acc, cur)
    ELSE IF s[k] = c THEN SplitCharFrom(s, c, k + 1, <<>>, Append(acc, cur))
    ELSE SplitCharFrom(s, c, k + 1, Append(cur, s[k]), acc)

SplitChar(s, c) == SplitCharFrom(s, c, 1, <<>>, <<>>)

\* String.prototype.split(/\t|\s{3,}/)
RECURSIVE SplitTabsFrom(_, _, _, _)
SplitTabsFrom(s, k, cur, acc) ==
    IF k > Len(s) THEN Append(acc, cur)
    ELSE IF s[k] = "\t" THEN SplitTabsFrom(s, k + 1, <<>>, Append(acc, cur))
    ELSE IF WsLen(s, k) >= 3 THEN SplitTabsFrom(s, k + WsLen(s, k), <<>>, Append(acc, cur))
    ELSE SplitTabsFrom(s, k + 1, Append(cur, s[k]), acc)

\* /\s{3,}/.test(s)
HasWideGap(s) == \E k \in 1..Len(s) : WsLen(s, k) >= 3

\* .map(col => col.trim()).filter(col => col)
Columns(parts) == SelectSeq(SeqMap(trim, parts), LAMBDA col : col # <<>>)

\* the cells of one row of processTableItems
tableColumns(item) ==
    IF includes(item, <<"|">>) THEN Columns(SplitChar(item, "|"))
    ELSE IF includes(item, <<"\t">>) \/ HasWideGap(item) THEN Columns(SplitTabsFrom(item, 1, <<>>, <<>>))
    ELSE <<item>>

\* a row that is never padded
padRowNone(row, width) == row

\* while (row.length < headers.length) row.push('')
RECURSIVE padRow(_, _)
padRow(row, width) == IF Len(row) < width THEN padRow(Append(row, <<>>), width) ELSE row

processTableItems(items) ==
    IF items = <<>> THEN <<>>
    ELSE LET used    == {k \in 1..Len(items) : trim(items[k]) # <<>>}
             headers == IF 1 \in used THEN tableColumns(trim(items[1])) ELSE <<>>
             dataIdx == SelectSeq([k \in 1..Len(items) |-> k], LAMBDA k : k > 1 /\ k \in used)
             data    == [n \in 1..Len(dataIdx) |-> padRow(tableColumns(trim(items[dataIdx[n]])), Len(headers))]
         IN  <<NL, Tok("table", 0, <<>>, <<>>, headers, <<>>, data)>>

CTA_HEADING == <<"R","e","a","d","y"," ","t","o"," ","G","e","t"," ","S","t","a","r","t","e","d","?">>
CTA_DESCRIPTION == <<"G","e","t"," ","i","n"," ","t","o","u","c","h"," ","w","i","t","h"," ","o","u","r"," ","e","x","p","e","r","i","e","n","c","e","d"," ","t","e","a","m"," ","f","o","r"," ","a"," ","f","r","e","e"," ","c","o","n","s","u","l","t","a","t","i","o","n",".">>
CTA_BUTTON == <<"S","c","h","e","d","u","l","e"," ","F","r","e","e"," ","C","o","n","s","u","l","t","a","t","i","o","n">>
CTA_IMAGE == <<"h","t","t","p","s",":","/","/","w","w","w",".","s","p","a","c","e","o","t","e","c","h","n","o","l","o","g","i","e","s",".","c","o","m","/","w","p","-","c","o","n","t","e","n","t","/","u","p","l","o","a","d","s","/","2","0","2","3","/","0","4","/","c","t","a","-","i","m","g",".","p","n","g">>
CTA1_HEADING == <<"W","a","n","t"," ","T","o"," ","C","r","e","a","t","e"," ","A","n"," ","A","n","d","r","o","i","d"," ","A","p","p","l","i","c","a","t","i","o","n","?">>
CTA1_DESCRIPTION == <<"L","o","o","k","i","n","g"," ","t","o"," ","C","r","e","a","t","e"," ","A","n"," ","A","n","d","r","o","i","d"," ","a","p","p","?"," ","G","e","t"," ","i","n"," ","t","o","u","c","h"," ","w","i","t","h"," ","o","u","r"," ","e","x","p","e","r","i","e","n","c","e","d"," ","A","n","d","r","o","i","d"," ","a","p","p"," ","d","e","v","e","l","o","p","e","r","s"," ","f","o","r"," ","a"," ","f","r","e","e"," ","c","o","n","s","u","l","t","a","t","i","o","n",".">>
CTA2_HEADING == <<"G","e","t"," ","a"," ","F","r","e","e"," ","M","o","b","i","l","e"," ","A","p","p"," ","D","e","v","e","l","o","p","m","e","n","t"," ","S","t","r","a","t","e","g","y"," ","S","e","s","s","i","o","n">>
CTA2_DESCRIPTION == <<"D","i","s","c","o","v","e","r"," ","t","h","e"," ","b","e","s","t"," ","a","p","p","r","o","a","c","h"," ","t","o"," ","b","u","i","l","d","i","n","g"," ","a"," ","c","u","s","t","o","m"," ","m","o","b","i","l","e"," ","a","p","p"," ","t","a","i","l","o","r","e","d"," ","t","o"," ","y","o","u","r"," ","b","u","s","i","n","e","s","s","."," ","G","e","t"," ","e","x","p","e","r","t"," ","i","n","s","i","g","h","t","s"," ","w","i","t","h"," ","n","o"," ","o","b","l","i","g","a","t","i","o","n",".">>
CTA2_BUTTON == <<"C","l","a","i","m"," ","M","y"," ","F","r","e","e"," ","S","t","r","a","t","e","g","y"," ","S","e","s","s","i","o","n">>
FAQ_TITLE == <<"F","r","e","q","u","e","n","t","l","y"," ","A","s","k","e","d"," ","Q","u","e","s","t","i","o","n","s">>
FAQ_ID == <<"f","r","e","q","u","e","n","t","l","y","-","a","s","k","e","d","-","q","u","e","s","t","i","o","n","s">>
STEP_WORD == <<"S","t","e","p"," ">>
OBJECT_OBJECT == <<"[","o","b","j","e","c","t"," ","O","b","j","e","c","t","]">>
questionWords == {<<"h","o","w">>, <<"w","h","a","t">>, <<"w","h","e","n">>, <<"w","h","e","r","e">>, <<"w","h","y">>, <<"w","h","o">>, <<"w","h","i","c","h">>, <<"c","a","n">>, <<"w","i","l","l">>, <<"s","h","o","u","l","d">>, <<"i","s">>, <<"a","r","e">>, <<"d","o">>, <<"d","o","e","s">>}

\* text.toLowerCase().split(' ')[0] is a question word, and text.length > 10
isLikelyQuestion(text) ==
    /\ Head(SplitChar(toLowerCase(text), " ")) \in questionWords
    /\ Len(text) > 10

\* one question with its answers: <h3 id=..>question</h3> and a <p> per answer
faqPair(question, answers) ==
    <<H(3, generateId(question), question)>> \o SeqMap(P, answers)

RECURSIVE faqFrom(_, _, _, _, _)
faqFrom(items, k, currentQuestion, answerParagraphs, faqHtml) ==
    IF k > Len(items)
    THEN IF currentQuestion # <<>> /\ answerParagraphs # <<>>
         THEN faqHtml \o faqPair(currentQuestion, answerParagraphs)
         ELSE IF currentQuestion = <<>> /\ answerParagraphs # <<>>
         THEN faqHtml \o SeqMap(P, answerParagraphs)
         ELSE faqHtml
    ELSE LET item == trim(items[k])
         IN  IF item = <<>> THEN faqFrom(items, k + 1, currentQuestion, answerParagraphs, faqHtml)
             ELSE IF endsWith(item, <<"?">>) \/ isLikelyQuestion(item)
             THEN faqFrom(items, k + 1, item, <<>>,
                          IF currentQuestion # <<>> /\ answerParagraphs # <<>>
                          THEN faqHtml \o faqPair(currentQuestion, answerParagraphs)
                          ELSE faqHtml)
             ELSE IF currentQuestion # <<>>
             THEN faqFrom(items, k + 1, currentQuestion, Append(answerParagraphs, item), faqHtml)
             ELSE IF Len(item) > 20
             THEN faqFrom(items, k + 1, currentQuestion, Append(answerParagraphs, item), faqHtml)
             ELSE faqFrom(items, k + 1, currentQuestion, answerParagraphs, faqHtml)

processFAQItems(items) == faqFrom(items, 1, <<>>, <<>>, <<>>)

\* decimal digits of n
RECURSIVE Decimal(_)
Decimal(n) == IF n < 10 THEN <<DigitSeq[n + 1]>> ELSE Decimal(n \div 10) \o <<DigitSeq[(n % 10) + 1]>>

\* one item of the steps template: <li><h3>title</h3><p>description</p></li>
stepItem(item, index) ==
    LET colon == IndexOfFrom(item, <<":">>, 1)
        first == IF colon = 0 THEN item ELSE SubSeq(item, 1, colon - 1)
        rest  == IF colon = 0 THEN <<>> ELSE trim(Drop(item, colon))
    IN  <<H(3, <<>>, OrElse(first, STEP_WORD \o Decimal(index))), P(OrElse(rest, item))>>

\* one row of the comparison template
comparisonRow(item) ==
    LET parts == SeqMap(trim, SplitChar(item, "|"))
    IN  IF Len(parts) >= 3 THEN SubSeq(parts, 1, 3) ELSE <<item>>

\* the 'toc' template: items are strings (buffered lines) or {text, id, level} objects
tocLinkOfString(item) == Href(generateId(item))
tocTemplate(ids, texts) == IF texts = <<>> THEN <<>> ELSE <<NL, TOC(1, ids, texts)>>

\* Math.ceil(items.length / 2)
midPoint(items) == (Len(items) + 1) \div 2

\* sectionTemplates[sectionType]('', items), items being buffered lines
processSectionContent(sectionType, items) ==
    CASE sectionType = "toc" -> tocTemplate(SeqMap(tocLinkOfString, items), items)
      [] sectionType = "key-takeaways" -> <<NL, Blk("kta", items)>>
      [] sectionType = "cta" ->
           <<NL, Blk("cta", <<ItemOr(items, 1, CTA_HEADING), ItemOr(items, 2, CTA_DESCRIPTION),
                              ItemOr(items, 3, CTA_BUTTON), ItemOr(items, 4, CTA_IMAGE)>>)>>
      [] sectionType = "cta1" ->
           <<NL, Mark("cta1open"), H(3, <<>>, ItemOr(items, 1, CTA1_HEADING)),
             Blk("cta1rest", <<ItemOr(items, 2, CTA1_DESCRIPTION), ItemOr(items, 3, CTA_BUTTON),
                               ItemOr(items, 4, CTA_IMAGE)>>)>>
      [] sectionType = "cta2" ->
           <<NL, Blk("cta2", <<ItemOr(items, 1, CTA2_HEADING), ItemOr(items, 2, CTA2_DESCRIPTION),
                               ItemOr(items, 3, CTA2_BUTTON)>>)>>
      [] sectionType = "faq" ->
           <<NL, Mark("faqopen"), H(2, FAQ_ID, FAQ_TITLE)>> \o processFAQItems(items) \o <<Mark("divclose")>>
      [] sectionType = "steps" ->
           <<NL, Mark("stepsopen")>> \o Flatten([n \in 1..Len(items) |-> stepItem(items[n], n)])
             \o <<Mark("stepsclose")>>
      [] sectionType = "pros-cons" ->
           <<NL, Tok("proscons", 0, <<>>, <<>>, Take(items, midPoint(items)),
                     Drop(items, midPoint(items)), <<>>)>>
      [] sectionType = "bullet-list" -> <<NL, Blk("bullets", items)>>
      [] sectionType = "comparison" ->
           <<NL, Tok("comparison", 0, <<>>, <<>>, <<>>, <<>>, SeqMap(comparisonRow, items))>>
      [] sectionType = "ignore" -> <<>>
      [] sectionType = "table" -> processTableItems(items)
      [] OTHER -> <<P(<<>>)>>

\* sectionTemplates['toc']('', tocItems), tocItems being {text, id, level} objects
processTocItems(tocItems) ==
    tocTemplate([n \in 1..Len(tocItems) |->
                    IF tocItems[n].text # <<>> /\ tocItems[n].id # <<>> THEN Href(tocItems[n].id) ELSE <<>>],
                [n \in 1..Len(tocItems) |->
                    IF tocItems[n].text # <<>> /\ tocItems[n].id # <<>> THEN tocItems[n].text ELSE OBJECT_OBJECT])

(***************************************************************************)
(* DocumentParser: post-processing of the assembled HTML                   *)
(***************************************************************************)
IsWsTok(t) == t.k \in {"nl", "sp"}
IsBlank(s) == \A k \in 1..Len(s) : IsWs(s[k])

\* s.replace(/<[^>]*>/g, '')
RECURSIVE StripTags(_)
StripTags(s) ==
    IF s = <<>> THEN <<>>
    ELSE IF s[1] = "<" /\ IndexOfFrom(s, <<">">>, 2) > 0 THEN StripTags(Drop(s, IndexOfFrom(s, <<">">>, 2)))
    ELSE <<s[1]>> \o StripTags(Tail(s))

\* /<h([2-4])([^>]*?)>(.*?)<\/h[2-4]>/gi
IsTocHeading(t) == t.k = "h" /\ t.lv \in 2..4

\* the id the TOC links a heading by: its id attribute, else one generated from its text
headingId(t) == IF t.id # <<>> THEN t.id ELSE generateId(StripTags(trim(t.tx)))

\* a heading without id is replaced by <h{level} id="{headingId}"{attributes}>{headingText}</h{level}>
withHeadingId(t) == IF IsTocHeading(t) /\ t.id = <<>> THEN H(t.lv, headingId(t), trim(t.tx)) ELSE t

FirstIndex(html, Test(_)) ==
    LET hits == {k \in 1..Len(html) : Test(html[k])}
    IN  IF hits = {} THEN 0 ELSE CHOOSE k \in hits : \A j \in hits : k <= j

IsToc(t) == t.k = "toc"

enhanceTOCWithH2Links(html) ==
    LET allHeadings  == SelectSeq(html, IsTocHeading)
        modifiedHtml == SeqMap(withHeadingId, html)
        tocMatch     == FirstIndex(modifiedHtml, IsToc)
        newTocSection == TOC(0, [n \in 1..Len(allHeadings) |-> Href(headingId(allHeadings[n]))],
                                [n \in 1..Len(allHeadings) |-> StripTags(trim(allHeadings[n].tx))])
    IN  IF allHeadings = <<>> \/ tocMatch = 0 THEN modifiedHtml
        ELSE [modifiedHtml EXCEPT ![tocMatch] = newTocSection]

\* position of the first occurrence of the token string sub in html, 0 if none
FirstOccurrence(html, sub) ==
    LET hits == {k \in 1..(Len(html) - Len(sub) + 1) : SubSeq(html, k, k + Len(sub) - 1) = sub}
    IN  IF hits = {} THEN 0 ELSE CHOOSE k \in hits : \A j \in hits : k <= j

\* html.replace(sub, ''): String.prototype.replace with a string pattern removes the FIRST occurrence
removeFirst(html, sub) ==
    LET k == FirstOccurrence(html, sub)
    IN  IF k = 0 \/ sub = <<>> THEN html ELSE SubSeq(html, 1, k - 1) \o Drop(html, k + Len(sub) - 1)

\* for (let i = 1; i < sections.length; i++) html = html.replace(sections[i], '')
RECURSIVE removeDuplicates(_, _, _)
removeDuplicates(html, sections, i) ==
    IF i > Len(sections) THEN html ELSE removeDuplicates(removeFirst(html, sections[i]), sections, i + 1)

\* 1. html.match(/<div class="blog_index_cover"[\s\S]*?<\/div>/gi)
tocSections(html) == [n \in 1..Len(SelectSeq(html, IsToc)) |-> <<SelectSeq(html, IsToc)[n]>>]

\* 2. the replace callback over /<h([1-6])([^>]*?)>(.*?)<\/h[1-6]>/gi with the seenHeadings set
RECURSIVE dedupeHeadings(_, _)
dedupeHeadings(html, seenHeadings) ==
    IF html = <<>> THEN <<>>
    ELSE LET t == Head(html)
             headingKey == <<t.lv, trim(t.tx)>>
         IN  IF t.k = "h" /\ t.lv \in 1..6
             THEN IF headingKey \in seenHeadings THEN dedupeHeadings(Tail(html), seenHeadings)
                  ELSE <<t>> \o dedupeHeadings(Tail(html), seenHeadings \cup {headingKey})
             ELSE <<t>> \o dedupeHeadings(Tail(html), seenHeadings)

\* 3. html.match(/<div class="faq_blog"[\s\S]*?<\/div>/gi): from each opening to the next </div>
RECURSIVE faqSectionsFrom(_, _)
faqSectionsFrom(html, k) ==
    IF k > Len(html) THEN <<>>
    ELSE IF html[k].k = "faqopen"
         THEN LET ends == {j \in (k + 1)..Len(html) : html[j].k = "divclose"}
                  e == IF ends = {} THEN 0 ELSE CHOOSE j \in ends : \A m \in ends : j <= m
              IN  IF e = 0 THEN <<>> ELSE <<SubSeq(html, k, e)>> \o faqSectionsFrom(html, e + 1)
         ELSE faqSectionsFrom(html, k + 1)

\* 4. .replace(/<p>\s*<\/p>/gi, '')
IsEmptyP(t) == t.k = "p" /\ IsBlank(t.tx)

\* 4. .replace(/\n\s*\n\s*\n/g, '\n\n')  (after it /\n{3,}/ matches nothing)
RECURSIVE collapseNewlines(_, _)
collapseNewlines(html, k) ==
    IF k > Len(html) THEN <<>>
    ELSE LET stop == {j \in k..Len(html) : ~IsWsTok(html[j])}
             e    == IF stop = {} THEN Len(html) ELSE (CHOOSE j \in stop : \A m \in stop : j <= m) - 1
             nls  == {j \in k..e : html[j].k = "nl"}
             last == CHOOSE j \in nls : \A m \in nls : j >= m
         IN  IF html[k].k = "nl" /\ Cardinality(nls) >= 3
             THEN <<NL, NL>> \o collapseNewlines(html, last + 1)
             ELSE <<html[k]>> \o collapseNewlines(html, k + 1)

\* 5. .replace(/<ul[^>]*?>\s*<\/ul>/gi, '') and the same for <ol>
RECURSIVE removeEmptyLists(_, _, _, _)
removeEmptyLists(html, k, open, close) ==
    IF k > Len(html) THEN <<>>
    ELSE LET stop == {j \in (k + 1)..Len(html) : ~IsWsTok(html[j])}
             e    == IF stop = {} THEN 0 ELSE CHOOSE j \in stop : \A m \in stop : j <= m
         IN  IF html[k].k = open /\ e > 0 /\ html[e].k = close
             THEN removeEmptyLists(html, e + 1, open, close)
             ELSE <<html[k]>> \o removeEmptyLists(html, k + 1, open, close)

\* 6. .replace(/<li>\s*<\/li>/gi, '')
IsEmptyLi(t) == t.k = "li" /\ IsBlank(t.tx)

\* 7. .replace(/\s{2,}/g, ' ') inside a text
RECURSIVE collapseSpaces(_)
collapseSpaces(s) ==
    IF s = <<>> THEN <<>>
    ELSE IF WsLen(s, 1) >= 2 THEN <<" ">> \o collapseSpaces(Drop(s, WsLen(s, 1)))
    ELSE <<s[1]>> \o collapseSpaces(Tail(s))

collapseInToken(t) ==
    [t EXCEPT !.tx = collapseSpaces(t.tx),
              !.items = SeqMap(collapseSpaces, t.items),
              !.rows = [r \in 1..Len(t.rows) |-> SeqMap(collapseSpaces, t.rows[r])]]

\* 7. .replace(/\s{2,}/g, ' ') between the elements; 8. runs of <br> and of &nbsp;
RECURSIVE collapseRuns(_, _)
collapseRuns(html, k) ==
    IF k > Len(html) THEN <<>>
    ELSE LET t    == html[k]
             same == IF IsWsTok(t) THEN {j \in k..Len(html) : ~IsWsTok(html[j])}
                     ELSE {j \in k..Len(html) : html[j].k # t.k}
             e    == IF same = {} THEN Len(html) ELSE (CHOOSE j \in same : \A m \in same : j <= m) - 1
         IN  IF IsWsTok(t) /\ e > k THEN <<SP>> \o collapseRuns(html, e + 1)
             ELSE IF t.k \in {"br", "nbsp"} /\ e > k THEN <<t>> \o collapseRuns(html, e + 1)
             ELSE <<collapseInToken(t)>> \o collapseRuns(html, k + 1)

\* 9. .trim()
RECURSIVE trimTokens(_)
trimTokens(html) ==
    IF html # <<>> /\ IsWsTok(html[1]) THEN trimTokens(Tail(html))
    ELSE IF html # <<>> /\ IsWsTok(html[Len(html)]) THEN trimTokens(SubSeq(html, 1, Len(html) - 1))
    ELSE html

cleanupHTML(html) ==
    LET h1 == IF Len(tocSections(html)) > 1 THEN removeDuplicates(html, tocSections(html), 2) ELSE html
        h2 == dedupeHeadings(h1, {})
        h3 == IF Len(faqSectionsFrom(h2, 1)) > 1 THEN removeDuplicates(h2, faqSectionsFrom(h2, 1), 2) ELSE h2
        h4 == collapseNewlines(SelectSeq(h3, LAMBDA t : ~IsEmptyP(t)), 1)
        h5 == removeEmptyLists(removeEmptyLists(h4, 1, "ulopen", "ulclose"), 1, "olopen", "olclose")
        h6 == SelectSeq(h5, LAMBDA t : ~IsEmptyLi(t))
        h8 == collapseRuns(h6, 1)
    IN  trimTokens(h8)

(***************************************************************************)
(* DocumentParser: helpers of the scan                                     *)
(***************************************************************************)
\* s.replace(/DD(.*?)DD/g, '<strong>$1</strong>') for a two-character delimiter DD
RECURSIVE strongFrom(_, _, _)
strongFrom(s, k, delim) ==
    IF k > Len(s) THEN <<>>
    ELSE LET e == IF MatchAt(s, delim, k) THEN IndexOfFrom(s, delim, k + 2) ELSE 0
         IN  IF e > 0
             THEN <<"<","s","t","r","o","n","g",">">> \o SubSeq(s, k + 2, e - 1)
                    \o <<"<","/","s","t","r","o","n","g",">">> \o strongFrom(s, e + 2, delim)
             ELSE <<s[k]>> \o strongFrom(s, k + 1, delim)

\* s.replace(/(?<!c)c([^c]+)c(?!c)/g, '<em>$1</em>') for the one-character delimiter c
RECURSIVE emFrom(_, _, _)
emFrom(s, k, c) ==
    IF k > Len(s) THEN <<>>
    ELSE LET e  == IF s[k] = c /\ (k = 1 \/ s[k - 1] # c) THEN IndexOfFrom(s, <<c>>, k + 1) ELSE 0
             ok == e > k + 1 /\ (e = Len(s) \/ s[e + 1] # c)
         IN  IF ok
             THEN <<"<","e","m",">">> \o SubSeq(s, k + 1, e - 1) \o <<"<","/","e","m",">">> \o emFrom(s, e + 1, c)
             ELSE <<s[k]>> \o emFrom(s, k + 1, c)

\* s.replace(/\[([^\]]+)\]\(([^)]+)\)/g, '<a href="$2">$1</a>')
RECURSIVE linkFrom(_, _)
linkFrom(s, k) ==
    IF k > Len(s) THEN <<>>
    ELSE LET b  == IF s[k] = "[" THEN IndexOfFrom(s, <<"]">>, k + 1) ELSE 0
             p  == IF b > k + 1 /\ b < Len(s) /\ s[b + 1] = "(" THEN IndexOfFrom(s, <<")">>, b + 2) ELSE 0
         IN  IF p > b + 2
             THEN <<"<","a"," ","h","r","e","f","=","\"">> \o SubSeq(s, b + 2, p - 1) \o <<"\"",">">>
                    \o SubSeq(s, k + 1, b - 1) \o <<"<","/","a",">">> \o linkFrom(s, p + 1)
             ELSE <<s[k]>> \o linkFrom(s, k + 1)

formatRichText(text) ==
    linkFrom(emFrom(emFrom(strongFrom(strongFrom(text, 1, STARS), 1, <<"_","_">>), 1, "*"), 1, "_"), 1)

isTableRow(line) == includes(line, <<"|">>) \/ includes(line, <<"\t">>) \/ HasWideGap(line)

openList(type) == <<Mark(IF type = "ordered" THEN "olopen" ELSE "ulopen"), NL>>
closeList(type) == <<Mark(IF type = "ordered" THEN "olclose" ELSE "ulclose"), NL>>

TABLE_TAG == <<"<","T","A","B","L","E",">">>
TABLE_END_TAG == <<"<","T","A","B","L","E"," ","E","N","D",">">>
TABLE_END_WORDS == <<"T","A","B","L","E"," ","E","N","D">>

(***************************************************************************)
(* DocumentParser.convertTextToHTML: what the loop body computes from one  *)
(* line alone.  The loop evaluates these expressions on lines[i]; they are *)
(* gathered in one record so that they are computed once per line.         *)
(***************************************************************************)
\* the branches with the list-item test ahead of the heading test
lineCaseListFirst(rawLine) ==
    LET line == trim(rawLine)
        normalizedLine == trim(toUpperCase(line))
    IN  IF line = <<>> THEN "blank"
        ELSE IF includes(line, TABLE_TAG) THEN "tableBlock"
        ELSE IF includes(line, TABLE_END_TAG) \/ includes(line, TABLE_END_WORDS) THEN "skipTableEnd"
        ELSE IF isListItem(line) THEN "listItem"
        ELSE IF isHeading(line) \/ isStartTag(toUpperCase(line)) \/ isEndTag(toUpperCase(line))
        THEN IF isEndTag(normalizedLine) THEN "endTag"
             ELSE IF isStartTag(normalizedLine) /\ getSectionTypeFromTag(normalizedLine) # NoSection THEN "startTag"
             ELSE "heading"
        ELSE IF isTableRow(line) THEN "tableRow"
        ELSE "prose"

\* which branch of the loop body a line takes
lineCase(rawLine) ==
    LET line == trim(rawLine)
        normalizedLine == trim(toUpperCase(line))
    IN  IF line = <<>> THEN "blank"
        ELSE IF includes(line, TABLE_TAG) THEN "tableBlock"
        ELSE IF includes(line, TABLE_END_TAG) \/ includes(line, TABLE_END_WORDS) THEN "skipTableEnd"
        ELSE IF isHeading(line) \/ isStartTag(toUpperCase(line)) \/ isEndTag(toUpperCase(line))
        THEN IF isEndTag(normalizedLine) THEN "endTag"
             ELSE IF isStartTag(normalizedLine) /\ getSectionTypeFromTag(normalizedLine) # NoSection THEN "startTag"
             ELSE "heading"
        ELSE IF isTableRow(line) THEN "tableRow"
        ELSE IF isListItem(line) THEN "listItem"
        ELSE "prose"

lineAnalysis(rawLine) ==
    LET line == trim(rawLine)
        normalizedLine == trim(toUpperCase(line))
        text == cleanHeadingText(line)
    IN  [line |-> line,
         case |-> lineCase(rawLine),
         normalizedLine |-> normalizedLine,
         isHeading |-> isHeading(line),
         isStartTag |-> isStartTag(normalizedLine),
         tagType |-> getSectionTypeFromTag(normalizedLine),
         level |-> getHeadingLevel(line),
         text |-> text,
         id |-> generateId(text),
         sectionType |-> detectSectionType(text),
         itemText |-> cleanListItem(line),
         listType |-> getListType(line),
         richText |-> formatRichText(line),
         rawIsTableRow |-> isTableRow(rawLine),
         isTableRow |-> isTableRow(line),
         hasTableEnd |-> includes(rawLine, TABLE_END_TAG),
         isTableContent |-> line # <<>> /\ ~startsWith(line, <<"<">>) /\ ~endsWith(line, <<">">>)]

(***************************************************************************)
(* Input documents of the model                                            *)
(***************************************************************************)
L_BLANK == <<>>
L_IGNORE == <<"<","I","G","N","O","R","E",">">>
L_TABLE == <<"<","T","A","B","L","E",">">>
L_TABLE_END == <<"<","T","A","B","L","E"," ","E","N","D",">">>
L_TOC == <<"<","T","O","C",">">>
L_TOC_END == <<"<","T","O","C"," ","E","N","D",">">>
L_HEADING == <<"O","u","r"," ","S","e","r","v","i","c","e","s">>
L_KEY_TAKEAWAYS == <<"K","E","Y"," ","T","A","K","E","A","W","A","Y","S">>
L_ROW == <<"A"," ","|"," ","B">>
L_ITEM == <<"-"," ","I","n","t","r","o">>
L_PROSE == <<"p","l","a","i","n"," ","t","e","x","t"," ","h","e","r","e">>
L_TABLE_START == <<"[","T","A","B","L","E"," ","S","T","A","R","T","]">>
L_BRACKET_TABLE_END == <<"[","T","A","B","L","E"," ","E","N","D","]">>
L_FAQ == <<"F","A","Q">>

MaxLines == 4

Vocabulary ==
    {L_BLANK, L_IGNORE, L_TABLE, L_TABLE_END, L_TOC, L_TOC_END, L_HEADING, L_KEY_TAKEAWAYS,
     L_ROW, L_ITEM, L_PROSE}

\* the vocabulary with the plain-phrase trigger and the legacy table markers
LegacyVocabulary == Vocabulary \cup {L_TABLE_START, L_BRACKET_TABLE_END, L_FAQ}

\* content.split('\n') has at least one line
Documents(vocabulary) == UNION {[1..n -> vocabulary] : n \in 1..MaxLines}

\* <NAME END> for the start tag <NAME>
EndTagOf(tag) == SubSeq(tag, 1, Len(tag) - 1) \o <<" ","E","N","D",">">>

L_CTA == <<"<","C","T","A",">">>
L_CTA_END == <<"<","C","T","A"," ","E","N","D",">">>
L_FAQ_HEADING == <<"F","R","E","Q","U","E","N","T","L","Y"," ","A","S","K","E","D"," ","Q","U","E","S","T","I","O","N","S">>
L_CONTENTS == <<"T","A","B","L","E"," ","O","F"," ","C","O","N","T","E","N","T","S">>

\* the vocabulary with a section whose template has defaults and the trigger headings of faq and toc
SectionVocabulary == Vocabulary \cup {L_CTA, L_CTA_END, L_FAQ_HEADING, L_CONTENTS}

L_EM_ITEM == <<"-"," ","s","e","e"," ","*","t","h","i","s","*"," ","n","o","w">>
L_EM_PROSE == <<"r","e","a","d"," ","*","t","h","i","s","*"," ","n","o","w">>

\* the vocabulary with a list item and a paragraph that hold italic markdown
RichVocabulary == Vocabulary \cup {L_EM_ITEM, L_EM_PROSE}

L_FAQ_TAG == <<"<","F","A","Q",">">>
L_QUESTION == <<"W","h","a","t"," ","i","s"," ","t","h","i","s"," ","t","h","i","n","g","?">>
L_QUESTION2 == <<"W","h","y"," ","u","s","e"," ","t","h","i","s"," ","t","h","i","n","g","?">>

\* the lines that open an FAQ section, and the vocabulary with two questions
FaqTriggers == {L_FAQ_TAG, L_FAQ_HEADING}
FaqVocabulary == Vocabulary \cup {L_QUESTION, L_QUESTION2}

\* an FAQ trigger followed by a document
FaqDocuments == {<<t>> \o d : t \in FaqTriggers, d \in Documents(FaqVocabulary)}

L_NUMBERED == <<"1","."," ","s","t","e","p">>
L_NUMBERED_HEADING == <<"1","."," ","O","v","e","r","v","i","e","w">>

\* the vocabulary with a numbered list item, a numbered heading and the <FAQ> tag
RoutingVocabulary == Vocabulary \cup {L_NUMBERED, L_NUMBERED_HEADING, L_FAQ_TAG}

\* every line the model reads: the vocabularies and the end tags of their start tags
AllLines ==
    LET all == LegacyVocabulary \cup SectionVocabulary \cup RichVocabulary \cup FaqVocabulary \cup FaqTriggers
                 \cup RoutingVocabulary
    IN  all \cup {EndTagOf(l) : l \in {v \in all : isStartTag(v)}}

Analysis == [l \in AllLines |-> lineAnalysis(l)]
Line(l) == Analysis[l]

(***************************************************************************)
(* DocumentParser.convertTextToHTML: one iteration of the loop over the    *)
(* lines, as a function of the local variables of the function.  `an' is   *)
(* the sequence of the per-line results, an[k] = Line(lines[k]).  st.i is  *)
(* the index of the line under the scan, counted from 1.  st.opened and    *)
(* st.rendered count the assignments of a section type to currentSection   *)
(* and the section fragments (placeholder included) appended to html;      *)
(* st.openTag is the bracket start tag that opened the current section.    *)
(***************************************************************************)
InitialState ==
    [i |-> 1, html |-> <<>>, inList |-> FALSE, currentListType |-> "null",
     currentSection |-> NoSection, sectionItems |-> <<>>, tocItems |-> <<>>,
     opened |-> 0, rendered |-> 0, openTag |-> <<>>]

analyse(lines) == [k \in 1..Len(lines) |-> Line(lines[k])]

\* the loop of collectTableRows from line i on (lines are numbered from 1)
RECURSIVE collectFrom(_, _, _)
collectFrom(an, i, tableRows) ==
    IF i > Len(an) THEN tableRows
    ELSE LET rest == {j \in (i + 1)..Len(an) : an[j].line # <<>>}
             nextRowIndex == IF rest = {} THEN Len(an) + 1 ELSE CHOOSE j \in rest : \A m \in rest : j <= m
             a == an[i]
         IN  IF a.line = <<>>
             THEN IF tableRows # <<>>
                  THEN IF nextRowIndex <= Len(an) /\ an[nextRowIndex].rawIsTableRow
                       THEN collectFrom(an, i + 1, tableRows)
                       ELSE tableRows
                  ELSE collectFrom(an, i + 1, tableRows)
             ELSE IF a.isTableRow THEN collectFrom(an, i + 1, Append(tableRows, a.line))
             ELSE tableRows

collectTableRows(an, startIndex) == collectFrom(an, startIndex, <<>>)

\* closing the list and keeping its type
closeOpenListKeepsType(st) ==
    IF st.inList THEN [st EXCEPT !.html = st.html \o closeList(st.currentListType), !.inList = FALSE] ELSE st

\* if (inList) { html += this.closeList(currentListType); inList = false; currentListType = null; }
closeOpenList(st) ==
    IF st.inList
    THEN [st EXCEPT !.html = st.html \o closeList(st.currentListType), !.inList = FALSE, !.currentListType = "null"]
    ELSE st

\* an iteration that leaves the index where it is
advanceNot(st) == st

\* i++ of the for statement
advance(st) == [st EXCEPT !.i = st.i + 1]

\* lines 264-271
stepBlank(st) == advance(closeOpenList(st))

\* lines 274-307: the <TABLE> block, read ahead to the line holding <TABLE END>
tableBlockEnd(an, i) ==
    LET ends == {j \in (i + 1)..Len(an) : an[j].hasTableEnd}
    IN  IF ends = {} THEN Len(an) + 1 ELSE CHOOSE j \in ends : \A m \in ends : j <= m

IsTableContent(a) == a.isTableContent

tableBlockContent(an, i) ==
    LET kept == SelectSeq(SubSeq(an, i + 1, tableBlockEnd(an, i) - 1), IsTableContent)
    IN  [n \in 1..Len(kept) |-> kept[n].line]

stepTableBlock(an, st) ==
    LET tableContent == tableBlockContent(an, st.i)
        closed == closeOpenList(st)
        next == tableBlockEnd(an, st.i) + 1
    IN  IF tableContent # <<>>
        THEN [closed EXCEPT !.html = closed.html \o processTableItems(tableContent) \o <<NL>>, !.i = next]
        ELSE [st EXCEPT !.i = next]

\* lines 310-312
stepSkipTableEnd(st) == advance(st)

\* this.sectionDetector.processSectionContent(currentSection, sectionItems) appended to html
renderSection(st) ==
    [st EXCEPT !.html = st.html \o processSectionContent(st.currentSection, st.sectionItems),
               !.rendered = st.rendered + 1]

\* lines 319-330
stepEndTag(st) ==
    LET emits == st.currentSection # NoSection /\ st.sectionItems # <<>> /\ st.currentSection # "ignore"
        s == IF emits THEN renderSection(st) ELSE st
        cleared == IF st.currentSection # NoSection /\ st.sectionItems # <<>> THEN <<>> ELSE st.sectionItems
    IN  advance([s EXCEPT !.sectionItems = cleared, !.currentSection = NoSection, !.openTag = <<>>])

\* lines 333-343 and 471-481: the buffered section is appended, the TOC as a placeholder
flushSection(st) ==
    IF st.currentSection # NoSection /\ st.sectionItems # <<>>
    THEN IF st.currentSection = "toc"
         THEN [st EXCEPT !.html = st.html \o <<PLACEHOLDER>>, !.rendered = st.rendered + 1]
         ELSE IF st.currentSection # "ignore" THEN renderSection(st)
         ELSE st
    ELSE st

\* lines 333-343: "process previous section if any"; sectionItems = [] in each branch
flushPrevious(st) ==
    IF st.currentSection # NoSection /\ st.sectionItems # <<>>
    THEN [flushSection(st) EXCEPT !.sectionItems = <<>>]
    ELSE st

\* lines 352-359
stepStartTag(a, st) ==
    LET s == closeOpenList(flushPrevious(st))
    IN  advance([s EXCEPT !.currentSection = a.tagType, !.opened = s.opened + 1, !.openTag = a.normalizedLine])

\* html += `<h${level} id="${id}">${text}</h${level}>\n`; tocItems.push({ text: text, id: id, level: level })
emitHeading(a, st) ==
    [st EXCEPT !.html = st.html \o <<H(a.level, a.id, a.text), NL>>,
               !.tocItems = Append(st.tocItems, [text |-> a.text, id |-> a.id, level |-> a.level])]

\* the heading branch that writes every trigger heading
headingBranchAlwaysEmits(a, s) ==
    IF ~a.isHeading THEN s
    ELSE emitHeading(a, [s EXCEPT !.currentSection = a.sectionType, !.opened = s.opened + 1, !.openTag = <<>>])

\* lines 362-400, after "process previous section" and the closing of the list
headingBranch(a, s) ==
    IF ~a.isHeading THEN s
    ELSE IF a.sectionType # NoSection /\ ~a.isStartTag
    THEN LET o == [s EXCEPT !.currentSection = a.sectionType, !.opened = s.opened + 1, !.openTag = <<>>]
         IN  IF a.sectionType # "toc" /\ a.sectionType # "faq" THEN emitHeading(a, o) ELSE o
    ELSE IF s.currentSection \notin {"ignore", "faq", "toc"} THEN emitHeading(a, s)
    ELSE IF s.currentSection \in {"faq", "toc"} THEN [s EXCEPT !.sectionItems = Append(s.sectionItems, a.text)]
    ELSE s

\* lines 333-400
stepHeading(a, st) == advance(headingBranch(a, closeOpenList(flushPrevious(st))))

\* lines 404-427
stepTableRow(an, st) ==
    LET a == an[st.i]
        s == closeOpenList(st)
        tableRows == collectTableRows(an, st.i)
    IN  IF st.currentSection # NoSection
        THEN advance([st EXCEPT !.sectionItems = Append(st.sectionItems, a.line)])
        ELSE IF Len(tableRows) > 1
        THEN [s EXCEPT !.html = s.html \o processTableItems(tableRows), !.i = s.i + (Len(tableRows) - 1) + 1]
        ELSE advance([s EXCEPT !.html = s.html \o <<P(a.line), NL>>])

\* lines 430-451
stepListItem(a, st) ==
    LET opening == IF ~st.inList \/ st.currentListType # a.listType
                   THEN (IF st.inList THEN closeList(st.currentListType) ELSE <<>>) \o openList(a.listType)
                   ELSE <<>>
    IN  IF st.currentSection # NoSection
        THEN advance([st EXCEPT !.sectionItems = Append(st.sectionItems, a.itemText)])
        ELSE advance([st EXCEPT !.html = st.html \o opening \o <<SP, SP, LI(a.itemText), NL>>,
                                !.inList = TRUE, !.currentListType = a.listType])

\* lines 454-468
stepProse(a, st) ==
    IF st.currentSection # NoSection
    THEN advance([st EXCEPT !.sectionItems = Append(st.sectionItems, a.line)])
    ELSE LET s == closeOpenList(st)
         IN  advance([s EXCEPT !.html = s.html \o <<P(a.richText), NL>>])

\* lines 261-469: the body of the loop for the line at st.i
scanStep(an, st) ==
    LET a == an[st.i]
    IN  CASE a.case = "blank" -> stepBlank(st)
          [] a.case = "tableBlock" -> stepTableBlock(an, st)
          [] a.case = "skipTableEnd" -> stepSkipTableEnd(st)
          [] a.case = "endTag" -> stepEndTag(st)
          [] a.case = "startTag" -> stepStartTag(a, st)
          [] a.case = "heading" -> stepHeading(a, st)
          [] a.case = "tableRow" -> stepTableRow(an, st)
          [] a.case = "listItem" -> stepListItem(a, st)
          [] OTHER -> stepProse(a, st)

\* lines 471-485: the final section and the remaining list
finalFlush(st) ==
    LET f == flushSection(st)
    IN  IF f.inList THEN [f EXCEPT !.html = f.html \o closeList(f.currentListType)] ELSE f

IsPlaceholder(t) == t.k = "placeholder"

\* lines 488-491: html.replace('<!-- TOC_PLACEHOLDER -->', tocHtml) replaces the first placeholder
replacePlaceholder(html, tocItems) ==
    LET k == FirstIndex(html, IsPlaceholder)
    IN  IF k > 0 /\ tocItems # <<>>
        THEN SubSeq(html, 1, k - 1) \o processTocItems(tocItems) \o Drop(html, k)
        ELSE html

\* lines 487-501
postProcess(html, tocItems) ==
    LET h1 == replacePlaceholder(html, tocItems)
        h2 == IF FirstIndex(h1, IsToc) > 0 THEN enhanceTOCWithH2Links(h1) ELSE h1
    IN  cleanupHTML(h2)

\* the whole loop, from the state st on
RECURSIVE scanFrom(_, _)
scanFrom(an, st) == IF st.i > Len(an) THEN st ELSE scanFrom(an, scanStep(an, st))

convertTextToHTML(lines) ==
    LET st == finalFlush(scanFrom(analyse(lines), InitialState))
    IN  postProcess(st.html, st.tocItems)

(***************************************************************************)
(* The state machine: convertTextToHTML                                    *)
(***************************************************************************)
VARIABLES
    lines,            \* content.split('\n')
    an,               \* an[k]: what the loop body computes from lines[k] alone
    i,                \* loop index, from 1
    html,             \* the HTML assembled so far, as tokens
    inList, currentListType, currentSection, sectionItems, tocItems,
    opened,           \* history: assignments of a section type to currentSection
    rendered,         \* history: section fragments appended to html
    openTag,          \* history: the bracket start tag that opened the current section, <<>> if none
    pc,               \* "scan" inside the loop, "done" after the return
    arg, ret,         \* argument and return value of a helper called on its own ("call", "return")
    statusText,       \* DocumentToHTMLIDE: textContent of #statusText
    statusType,       \* the type of the last setStatus call, shown by #statusBadge
    timers,           \* number of setTimeout callbacks of setStatus that have not run yet
    loading,          \* #loading is displayed
    htmlEditor,       \* value of #htmlEditor: the call whose document it shows, 0 when empty
    currentDocument,  \* this.currentDocument: the call that produced it, 0 for null
    fileInfo,         \* textContent of #fileInfo: the call whose document it names, 0 when empty
    documentUrl,      \* value of #documentUrl
    calls             \* the processFile and fetchFromUrl calls in the order they started

\* the fields of the DocumentToHTMLIDE object and the page elements it writes
ide == <<statusText, statusType, timers, loading, htmlEditor, currentDocument, fileInfo, documentUrl, calls>>

parser == <<lines, an, i, html, inList, currentListType, currentSection, sectionItems, tocItems,
            opened, rendered, openTag, pc, arg, ret>>

vars == <<parser, ide>>

\* the local variables as one record
cur ==
    [i |-> i, html |-> html, inList |-> inList, currentListType |-> currentListType,
     currentSection |-> currentSection, sectionItems |-> sectionItems, tocItems |-> tocItems,
     opened |-> opened, rendered |-> rendered, openTag |-> openTag]

become(st) ==
    /\ i' = st.i
    /\ html' = st.html
    /\ inList' = st.inList
    /\ currentListType' = st.currentListType
    /\ currentSection' = st.currentSection
    /\ sectionItems' = st.sectionItems
    /\ tocItems' = st.tocItems
    /\ opened' = st.opened
    /\ rendered' = st.rendered
    /\ openTag' = st.openTag
    /\ UNCHANGED <<ide, lines, an, pc, arg, ret>>

\* the local variables of convertTextToHTML at its first line
Locals(st) ==
    /\ i = st.i
    /\ html = st.html
    /\ inList = st.inList
    /\ currentListType = st.currentListType
    /\ currentSection = st.currentSection
    /\ sectionItems = st.sectionItems
    /\ tocItems = st.tocItems
    /\ opened = st.opened
    /\ rendered = st.rendered
    /\ openTag = st.openTag

\* the page after new DocumentToHTMLIDE(): updateUI has called setStatus('Ready', 'info')
Constructed ==
    /\ statusText = "Ready"
    /\ statusType = "info"
    /\ timers = 1
    /\ loading = FALSE
    /\ htmlEditor = 0
    /\ currentDocument = 0
    /\ fileInfo = 0
    /\ documentUrl = <<>>
    /\ calls = <<>>

InitWith(vocabulary) ==
    /\ lines \in Documents(vocabulary)
    /\ an = analyse(lines)
    /\ pc = "scan"
    /\ Locals(InitialState)
    /\ Constructed
    /\ arg = <<>>
    /\ ret = <<>>

Init == InitWith(Vocabulary)

\* the loop is at a line that takes branch c
At(c) == pc = "scan" /\ i <= Len(lines) /\ an[i].case = c

BlankLine ==
    /\ At("blank")
    /\ become(stepBlank(cur))

TableBlock ==
    /\ At("tableBlock")
    /\ become(stepTableBlock(an, cur))

SkipTableEnd ==
    /\ At("skipTableEnd")
    /\ become(stepSkipTableEnd(cur))

EndTag ==
    /\ At("endTag")
    /\ become(stepEndTag(cur))

StartTag ==
    /\ At("startTag")
    /\ become(stepStartTag(an[i], cur))

HeadingLine ==
    /\ At("heading")
    /\ become(stepHeading(an[i], cur))

TableRowLine ==
    /\ At("tableRow")
    /\ become(stepTableRow(an, cur))

ListItemLine ==
    /\ At("listItem")
    /\ become(stepListItem(an[i], cur))

ProseLine ==
    /\ At("prose")
    /\ become(stepProse(an[i], cur))

\* lines 471-501: after the loop
Finish ==
    /\ pc = "scan"
    /\ i > Len(lines)
    /\ html' = postProcess(finalFlush(cur).html, tocItems)
    /\ rendered' = finalFlush(cur).rendered
    /\ pc' = "done"
    /\ UNCHANGED <<ide, lines, an, i, inList, currentListType, currentSection, sectionItems, tocItems, opened, openTag,
                   arg, ret>>

Next ==
    \/ BlankLine
    \/ TableBlock
    \/ SkipTableEnd
    \/ EndTag
    \/ StartTag
    \/ HeadingLine
    \/ TableRowLine
    \/ ListItemLine
    \/ ProseLine
    \/ Finish

Spec == Init /\ [][Next]_vars

\* the loop and the return of convertTextToHTML are sequential code: the next step is always taken
MaxLiveLines == 2

LiveDocuments == UNION {[1..n -> Vocabulary] : n \in 1..MaxLiveLines}

FairInit ==
    /\ lines \in LiveDocuments
    /\ an = analyse(lines)
    /\ pc = "scan"
    /\ Locals(InitialState)
    /\ Constructed
    /\ arg = <<>>
    /\ ret = <<>>

\* a pass of the for loop, lines 256-469
LoopStep ==
    \/ BlankLine
    \/ TableBlock
    \/ SkipTableEnd
    \/ EndTag
    \/ StartTag
    \/ HeadingLine
    \/ TableRowLine
    \/ ListItemLine
    \/ ProseLine

\* the return of convertTextToHTML once the loop condition i < lines.length is false: the step Finish takes
Returns == pc = "scan" /\ i > Len(lines) /\ pc' = "done"

SpecFair == FairInit /\ [][Next]_vars /\ WF_vars(LoopStep) /\ WF_pc(Returns)

\* the same program over the documents that hold legacy markers and plain trigger phrases
LegacyInit == InitWith(LegacyVocabulary)

SpecLegacy == LegacyInit /\ [][Next]_vars

\* the same program over the documents that hold a <CTA> section and the faq and toc trigger headings
SectionInit == InitWith(SectionVocabulary)

SpecSections == SectionInit /\ [][Next]_vars

\* the same program over the documents that hold inline markdown
RichInit == InitWith(RichVocabulary)

SpecRich == RichInit /\ [][Next]_vars

\* the same program over the documents that begin with an FAQ section
FaqSectionInit ==
    /\ lines \in FaqDocuments
    /\ an = analyse(lines)
    /\ pc = "scan"
    /\ Locals(InitialState)
    /\ Constructed
    /\ arg = <<>>
    /\ ret = <<>>

SpecFaqSection == FaqSectionInit /\ [][Next]_vars

\* the same program over the documents that hold numbered lines
RoutingInit == InitWith(RoutingVocabulary)

SpecRouting == RoutingInit /\ [][Next]_vars

(***************************************************************************)
(* A helper called on its own: the argument is drawn from a bounded set,   *)
(* the call is one step.                                                   *)
(***************************************************************************)
CallInit(arguments) ==
    /\ arg \in arguments
    /\ ret = <<>>
    /\ pc = "call"
    /\ lines = <<>>
    /\ an = <<>>
    /\ Locals(InitialState)
    /\ Constructed

Return(value) ==
    /\ pc = "call"
    /\ ret' = value
    /\ pc' = "return"
    /\ UNCHANGED <<ide, lines, an, i, html, inList, currentListType, currentSection, sectionItems, tocItems,
                   opened, rendered, openTag, arg>>

\* sequences over alphabet of length 0..n
SeqsUpTo(alphabet, n) == UNION {[1..m -> alphabet] : m \in 0..n}

\* cleanupHTML(html)
MaxTokens == 3

HtmlTokens ==
    {Mark("ulopen"), Mark("ulclose"), Mark("olopen"), Mark("olclose"), LI(<<>>), LI(<<"a">>), P(<<" ">>),
     NL, SP, H(2, <<"a">>, <<"a">>)}

CleanupInit == CallInit(SeqsUpTo(HtmlTokens, MaxTokens))

CallCleanupHTML == Return(cleanupHTML(arg))

SpecCleanup == CleanupInit /\ [][CallCleanupHTML]_vars

\* generateId(text)
MaxTextLen == 4
PadLen == 47
MaxAffixLen == 2

IdChars == {"a", "B", "7", " ", "-", "?"}

Pad == [k \in 1..PadLen |-> "a"]

\* short texts, and texts around the 50-character limit
IdTexts ==
    SeqsUpTo(IdChars, MaxTextLen)
        \cup {p \o Pad \o s : p \in SeqsUpTo(IdChars, MaxAffixLen), s \in SeqsUpTo(IdChars, MaxAffixLen)}

GenerateIdInit == CallInit(IdTexts)

CallGenerateId == Return(generateId(arg))

SpecGenerateId == GenerateIdInit /\ [][CallGenerateId]_vars

(***************************************************************************)
(* DocumentParser.convertMarkdownToHTML on one line of the content (every  *)
(* pattern is anchored to a line by ^ and $ with the m flag)               *)
(***************************************************************************)
\* bold, italic and links of convertMarkdownToHTML
markdownInline(s) == linkFrom(emFrom(strongFrom(s, 1, STARS), 1, "*"), 1)

\* ^(?!<[h|l|d]).+ : the lines the paragraph rule leaves alone
isMarkupLine(s) == s = <<>> \/ (Len(s) >= 2 /\ s[1] = "<" /\ s[2] \in {"h", "|", "l", "d"})

convertMarkdownLine(line) ==
    IF startsWith(line, <<"#","#","#"," ">>) THEN <<H(3, markdownInline(Drop(line, 4)), markdownInline(Drop(line, 4)))>>
    ELSE IF startsWith(line, <<"#","#"," ">>) THEN <<H(2, markdownInline(Drop(line, 3)), markdownInline(Drop(line, 3)))>>
    ELSE IF startsWith(line, <<"#"," ">>) THEN <<H(2, markdownInline(Drop(line, 2)), markdownInline(Drop(line, 2)))>>
    ELSE IF startsWith(line, <<"*"," ">>) \/ startsWith(line, <<"-"," ">>) THEN <<LI(markdownInline(Drop(line, 2)))>>
    ELSE IF isMarkupLine(markdownInline(line)) THEN <<Tok("raw", 0, <<>>, markdownInline(line), <<>>, <<>>, <<>>)>>
    ELSE <<P(markdownInline(line))>>

(***************************************************************************)
(* Heading levels: getHeadingLevel, the heading convertTextToHTML appends  *)
(* for a heading line, and convertMarkdownToHTML, each called on one line  *)
(***************************************************************************)
MaxWords == 7

LinePrefixes ==
    {<<>>, <<"1","."," ">>, <<"1",".","1","."," ">>, <<"1",".","1",".","1","."," ">>, <<"#"," ">>,
     <<"#","#"," ">>, <<"#","#","#"," ">>, <<"#","#","#","#"," ">>, <<"*","*">>, <<"-"," ">>}

LineWords == {<<"A","B","C">>, <<"A","b","c">>, <<"a","b">>}

LineSuffixes == {<<>>, <<"?">>, <<":">>, <<"_">>, <<"*","*">>}

\* n times the word w, separated by single spaces
RECURSIVE Words(_, _)
Words(w, n) == IF n = 1 THEN w ELSE w \o <<" ">> \o Words(w, n - 1)

HeadingLines ==
    {p \o Words(w, n) \o x : p \in LinePrefixes, w \in LineWords, n \in 1..MaxWords, x \in LineSuffixes}

HeadingLevelInit == CallInit(HeadingLines)

CallGetHeadingLevel == Return(<<"getHeadingLevel", getHeadingLevel(arg)>>)

\* the heading branch of the loop on a first line that is a heading
CallHeadingLine ==
    /\ isHeading(trim(arg))
    /\ Return(<<"heading", emitHeading([level |-> getHeadingLevel(trim(arg)), id |-> generateId(cleanHeadingText(trim(arg))),
                                        text |-> cleanHeadingText(trim(arg))], InitialState).html>>)

CallConvertMarkdown == Return(<<"convertMarkdownToHTML", convertMarkdownLine(arg)>>)

HeadingLevelNext ==
    \/ CallGetHeadingLevel
    \/ CallHeadingLine
    \/ CallConvertMarkdown

SpecHeadingLevel == HeadingLevelInit /\ [][HeadingLevelNext]_vars

(***************************************************************************)
(* SectionDetector.detectSectionType called on its own                     *)
(***************************************************************************)
DetectPrefixes == {<<>>, <<" ", " ">>, <<"M","Y"," ">>, <<"S","E","E"," ","T","H","E"," ">>}

DetectSuffixes ==
    {<<>>, <<":">>, <<".">>, <<"!">>, <<" ","N","O","W">>, <<" ","F","O","R"," ","Y","O","U">>}

\* every key of sectionMappings, in upper and in lower case, inside the prefixes and suffixes
DetectTexts ==
    {p \o key \o x : p \in DetectPrefixes,
                     key \in UNION {{sectionMappings[k][1], toLowerCase(sectionMappings[k][1])} : k \in DOMAIN sectionMappings},
                     x \in DetectSuffixes}

DetectInit == CallInit(DetectTexts)

CallDetectSectionType == Return(detectSectionType(arg))

SpecDetect == DetectInit /\ [][CallDetectSectionType]_vars

(***************************************************************************)
(* SectionDetector.processTableItems called on its own                     *)
(***************************************************************************)
MaxRows == 3

TableRows ==
    {<<"A","|","B","|","C">>, <<"A","|","B">>, <<"1","|","2">>, <<"1","\t","2">>, <<"x"," "," "," ","y">>, <<"q">>}

TableInit == CallInit(SeqsUpTo(TableRows, MaxRows) \ {<<>>})

CallProcessTableItems == Return(processTableItems(arg))

SpecTable == TableInit /\ [][CallProcessTableItems]_vars

(***************************************************************************)
(* SectionDetector.processFAQItems and the steps template called on their  *)
(* own                                                                     *)
(***************************************************************************)
MaxFaqItems == 3

F_QUESTION == <<"F","r","e","e","?">>
F_LIKELY == <<"h","o","w"," ","d","o","e","s"," ","i","t"," ","w","o","r","k">>
F_SHORT == <<"Y","e","s">>
F_LONG == <<"I","t"," ","i","s"," ","f","r","e","e"," ","o","f"," ","c","h","a","r","g","e"," ","f","o","r"," ","a","l","l">>

FaqLines == {F_QUESTION, F_LIKELY, F_SHORT, F_LONG}

FaqInit == CallInit(SeqsUpTo(FaqLines, MaxFaqItems) \ {<<>>})

CallProcessFAQItems == Return(processFAQItems(arg))

SpecFaq == FaqInit /\ [][CallProcessFAQItems]_vars

MaxSteps == 3

S_TITLED == <<"P","l","a","n",":"," ","d","o"," ","i","t">>
S_PLAIN == <<"P","l","a","n">>
S_UNTITLED == <<":"," ","u","n","t","i","t","l","e","d">>
S_COLONS == <<"a",":","b",":","c">>

StepLines == {S_TITLED, S_PLAIN, S_UNTITLED, S_COLONS}

StepsInit == CallInit(SeqsUpTo(StepLines, MaxSteps) \ {<<>>})

CallStepsTemplate == Return(processSectionContent("steps", arg))

SpecSteps == StepsInit /\ [][CallStepsTemplate]_vars

(***************************************************************************)
(* AIDocumentParser (src/unnamed/part_001): parseDocument and              *)
(* parseDocumentFromURL.  arg is the call and the parser object:           *)
(*   method         the function called                                    *)
(*   valid          isValidFormat(file), or fetchDocument(url) resolves    *)
(*   groqAvailable  this.groqAvailable, false after the constructor        *)
(*   checked        checkAIAvailability has settled                        *)
(*   response       what the AI endpoint answers to parseWithAI            *)
(* ret is <<parseMethod, html>>, or <<"throws", <<>>>> for a rejected      *)
(* promise.  The rule-based conversion of the fallback is the scan above.  *)
(***************************************************************************)
MaxAILines == 2

AIDocuments == UNION {[1..n -> Vocabulary] : n \in 1..MaxAILines}

Responses == {"networkError", "notOk", "successFalse", "malformed", "ok"}

\* result.data.html of a successful AI call
AI_HTML == <<P(<<"a","i">>)>>

\* lines 615-655: the html of the AI result, "throws" when the call fails
parseWithAIUnchecked(response) == AI_HTML

parseWithAI(response) == IF response = "ok" THEN AI_HTML ELSE "throws"

AIInit ==
    /\ lines \in AIDocuments
    /\ an = analyse(lines)
    /\ Locals(InitialState)
    /\ Constructed
    /\ pc = "call"
    /\ arg \in [method : {"parseDocument", "parseDocumentFromURL"}, valid : BOOLEAN,
                groqAvailable : {FALSE}, checked : {FALSE}, response : Responses]
    /\ ret = <<>>

Settle(value) ==
    /\ ret' = value
    /\ pc' = "return"
    /\ UNCHANGED <<ide, lines, an, i, html, inList, currentListType, currentSection, sectionItems, tocItems,
                   opened, rendered, openTag, arg>>

\* lines 561-572: the availability check started by the constructor settles
CheckAIAvailability ==
    /\ pc = "call"
    /\ ~arg.checked
    /\ \E ok \in BOOLEAN : arg' = [arg EXCEPT !.groqAvailable = ok, !.checked = TRUE]
    /\ UNCHANGED <<ide, lines, an, i, html, inList, currentListType, currentSection, sectionItems, tocItems,
                   opened, rendered, openTag, pc, ret>>

\* lines 579-581 and 670, 700-702: unsupported format, or the document cannot be fetched
ParseRejects ==
    /\ pc = "call"
    /\ ~arg.valid
    /\ Settle(<<"throws", <<>>>>)

\* lines 586-594 and 673-680: the AI call succeeds
ParseWithAI ==
    /\ pc = "call"
    /\ arg.valid
    /\ arg.groqAvailable
    /\ parseWithAI(arg.response) # "throws"
    /\ Settle(<<"ai", parseWithAI(arg.response)>>)

\* lines 586-601 and 673-688: no AI, or the AI call throws and the error is caught
StartFallback ==
    /\ pc = "call"
    /\ arg.valid
    /\ ~arg.groqAvailable \/ parseWithAI(arg.response) = "throws"
    /\ pc' = "scan"
    /\ UNCHANGED <<ide, lines, an, i, html, inList, currentListType, currentSection, sectionItems, tocItems,
                   opened, rendered, openTag, arg, ret>>

\* lines 601-606 and 690-698: the result of the rule-based conversion
ReturnFallback ==
    /\ pc = "done"
    /\ arg # <<>>
    /\ Settle(<<"fallback", html>>)

AINext ==
    \/ CheckAIAvailability
    \/ ParseRejects
    \/ ParseWithAI
    \/ StartFallback
    \/ BlankLine
    \/ TableBlock
    \/ SkipTableEnd
    \/ EndTag
    \/ StartTag
    \/ HeadingLine
    \/ TableRowLine
    \/ ListItemLine
    \/ ProseLine
    \/ Finish
    \/ ReturnFallback

SpecAI == AIInit /\ [][AINext]_vars

(***************************************************************************)
(* DocumentParser.analyzeTextStructure: the list blocks of the structure.  *)
(* A block is [type, items, startLine, endLine]; lines are counted from 1. *)
(***************************************************************************)
MaxStructLines == 6

StructLines == {L_ITEM, L_NUMBERED, L_PROSE, L_HEADING}

StructDocuments == UNION {[1..n -> StructLines] : n \in 1..MaxStructLines}

\* Math.abs(a - b)
Abs(n) == IF n < 0 THEN 0 - n ELSE n

\* structure.lists.find(list => Math.abs(list.startLine - i) < 5 && list.type === listType): its index, 0 for undefined
findList(lists, index, listType) ==
    LET found == {n \in DOMAIN lists : Abs(lists[n].startLine - index) < 5 /\ lists[n].type = listType}
    IN  IF found = {} THEN 0 ELSE CHOOSE n \in found : \A m \in found : n <= m

\* the loop of analyzeTextStructure from line index on, for structure.lists
RECURSIVE listsFrom(_, _, _)
listsFrom(ls, index, lists) ==
    IF index > Len(ls) THEN lists
    ELSE LET line == trim(ls[index])
             existingList == findList(lists, index, getListType(line))
         IN  IF line = <<>> \/ isHeading(line) \/ ~isListItem(line) THEN listsFrom(ls, index + 1, lists)
             ELSE IF existingList > 0
             THEN listsFrom(ls, index + 1,
                            [lists EXCEPT ![existingList].items = Append(@, cleanListItem(line)),
                                          ![existingList].endLine = index])
             ELSE listsFrom(ls, index + 1,
                            Append(lists, [type |-> getListType(line), items |-> <<cleanListItem(line)>>,
                                           startLine |-> index, endLine |-> index]))

\* content.split('\n').filter(line => line.trim()), then the loop
analyzeTextStructure(ls) == listsFrom(SelectSeq(ls, LAMBDA l : trim(l) # <<>>), 1, <<>>)

StructInit == CallInit(StructDocuments)

CallAnalyzeTextStructure == Return(analyzeTextStructure(arg))

SpecStructure == StructInit /\ [][CallAnalyzeTextStructure]_vars

(***************************************************************************)
(* The rule-based parsers of the servers (src/unnamed/part_001):           *)
(* parseContentWithRules of the Express server and of the serverless       *)
(* handler, with the helpers each file defines.  The content is one line;  *)
(* the value returned is structure.headings, as <<level, text>> pairs: the *)
(* statement that pushes a heading also writes its <h{level}> element.     *)
(***************************************************************************)
NoDot(s) == \A k \in 1..Len(s) : s[k] # "."

\* position after the match of /^\d+(\.\d+)*\.?/ read from position k, the digits of k already matched
RECURSIVE afterNumberGroups(_, _)
afterNumberGroups(s, k) ==
    IF k <= Len(s) /\ s[k] = "." /\ DigitsLen(s, k + 1) > 0
    THEN afterNumberGroups(s, k + 1 + DigitsLen(s, k + 1))
    ELSE IF k <= Len(s) /\ s[k] = "." THEN k + 1
    ELSE k

\* /^\d+(\.\d+)*\.?\s+[A-Z][^.]*$/.test(line)
isNumberedHeadingExpress(line) ==
    LET d == DigitsLen(line, 1)
        k == afterNumberGroups(line, d + 1)
        w == WsLen(line, k)
    IN  /\ d > 0
        /\ w > 0
        /\ k + w <= Len(line)
        /\ line[k + w] \in UpperSet
        /\ NoDot(Drop(line, k + w))

\* /^\d+\.\s+/ matches line
isNumberedLine(line) ==
    LET d == DigitsLen(line, 1)
    IN  d > 0 /\ d < Len(line) /\ line[d + 1] = "." /\ WsLen(line, d + 2) > 0

\* lines 1253-1277: isHeading of the Express server
isHeadingExpress(line) ==
    \/ /\ Len(line) > 3
       /\ line = toUpperCase(line)
       /\ \A k \in 1..Len(line) :
             line[k] \in UpperSet \cup DigitSet \cup {"-", ".", ",", "!", "?"} \/ IsWs(line[k])
    \/ isNumberedHeadingExpress(line)
    \/ /\ endsWith(line, <<"?">>)
       /\ Len(line) > 10
       /\ line[1] \notin LowerSet
    \/ /\ Len(line) > 5 /\ Len(line) < 100
       /\ line[1] \in UpperSet /\ line[2] \in LowerSet
       /\ NoDot(line)
    \/ /\ Len(line) >= 2
       /\ line[1] \in UpperSet
       /\ NoDot(line)
       /\ Len(SplitChar(line, " ")) >= 2 /\ Len(SplitChar(line, " ")) <= 15
    \/ /\ Len(line) >= 2
       /\ line[1] \in UpperSet
       /\ line[Len(line)] = ":"
       /\ \A k \in 1..(Len(line) - 1) : line[k] # ":"

\* lines 1279-1297: getHeadingLevel of the Express server
getHeadingLevelExpress(line) ==
    LET d == DigitsLen(line, 1)
    IN  IF isNumberedLine(line) THEN 2
        ELSE IF d > 0 /\ d + 1 < Len(line) /\ line[d + 1] = "." /\ line[d + 2] \in DigitSet THEN 3
        ELSE IF Len(line) > 20 /\ line = toUpperCase(line) THEN 1
        ELSE IF endsWith(line, <<"?">>) THEN 3
        ELSE 2

\* lines 1606-1610: isHeading of the serverless handler
isHeadingServerless(line) ==
    \/ /\ Len(line) > 5
       /\ line = toUpperCase(line)
       /\ \A k \in 1..Len(line) : line[k] \in UpperSet \/ IsWs(line[k])
    \/ /\ isNumberedLine(line)
       /\ NumGroups(line, 1, 1) < Len(line)
       /\ line[NumGroups(line, 1, 1) + 1] \in UpperSet
    \/ endsWith(line, <<"?">>) /\ Len(line) > 10

\* lines 1612-1616: getHeadingLevel of the serverless handler
getHeadingLevelServerless(line) ==
    IF isNumberedLine(line) THEN 2
    ELSE IF endsWith(line, <<"?">>) THEN 3
    ELSE 1

\* line.replace(/^\d+\.\s+/, '').trim(), the same in both files
cleanHeadingTextServer(line) ==
    IF isNumberedLine(line) THEN trim(Drop(line, NumGroups(line, 1, 1))) ELSE trim(line)

\* structure.headings of parseContentWithRules (Express server) for a content of one line
parseContentWithRulesExpress(content) ==
    LET line == trim(content)
    IN  IF line # <<>> /\ isHeadingExpress(line)
        THEN << <<getHeadingLevelExpress(line), cleanHeadingTextServer(line)>> >>
        ELSE <<>>

\* structure.headings of parseContentWithRules (serverless handler) for a content of one line
parseContentWithRulesServerless(content) ==
    LET line == trim(content)
    IN  IF line # <<>> /\ isHeadingServerless(line)
        THEN << <<getHeadingLevelServerless(line), cleanHeadingTextServer(line)>> >>
        ELSE <<>>

ServerInit == CallInit(HeadingLines)

CallParseContentWithRulesExpress == Return(<<"express", parseContentWithRulesExpress(arg)>>)

CallParseContentWithRulesServerless == Return(<<"serverless", parseContentWithRulesServerless(arg)>>)

ServerNext ==
    \/ CallParseContentWithRulesExpress
    \/ CallParseContentWithRulesServerless

SpecServer == ServerInit /\ [][ServerNext]_vars

(***************************************************************************)
(* DocumentToHTMLIDE: processFile, fetchFromUrl and the status line        *)
(***************************************************************************)
MaxCalls == 3

MaxTimers == 8

\* lines 936-970: setStatus(message, type) when `pending' callbacks wait; any type but 'error'
\* schedules one more callback, and no callback is ever cancelled
setStatus(message, type, pending) ==
    /\ statusText' = message
    /\ statusType' = type
    /\ timers' = IF type # "error" THEN pending + 1 ELSE pending

\* lines 975-978
showLoading(show) == loading' = show

IdeInit ==
    /\ pc = "ide"
    /\ lines = <<>>
    /\ an = <<>>
    /\ Locals(InitialState)
    /\ arg = <<>>
    /\ ret = <<>>
    /\ Constructed

\* what the user leaves in the URL field: nothing, a blank, an address
Urls == {<<>>, <<" ">>, <<"u">>}

\* the user edits the URL field
TypeUrl ==
    /\ pc = "ide"
    /\ \E url \in Urls :
        /\ url # documentUrl
        /\ documentUrl' = url
    /\ UNCHANGED <<parser, statusText, statusType, timers, loading, htmlEditor, currentDocument, fileInfo, calls>>

\* lines 612-617: processFile up to its await
ProcessFile ==
    /\ pc = "ide"
    /\ Len(calls) < MaxCalls
    /\ setStatus("Processing document...", "info", timers)
    /\ showLoading(TRUE)
    /\ calls' = Append(calls, [op |-> "processFile", state |-> "pending"])
    /\ UNCHANGED <<parser, htmlEditor, currentDocument, fileInfo, documentUrl>>

\* lines 647-661: fetchFromUrl up to its return or its await
FetchFromUrl ==
    /\ pc = "ide"
    /\ IF trim(documentUrl) = <<>>
       THEN /\ timers < MaxTimers
            /\ setStatus("Please enter a document URL", "warning", timers)
            /\ UNCHANGED <<loading, calls>>
       ELSE /\ Len(calls) < MaxCalls
            /\ setStatus("Fetching and parsing document with AI...", "info", timers)
            /\ showLoading(TRUE)
            /\ calls' = Append(calls, [op |-> "fetchFromUrl", state |-> "pending"])
    /\ UNCHANGED <<parser, htmlEditor, currentDocument, fileInfo, documentUrl>>

\* lines 617-634, 639-641 and 661-680, 685-687: the awaited promise of call c resolves and the
\* call runs to its end
Resolves(c) ==
    /\ pc = "ide"
    /\ calls[c].state = "pending"
    /\ currentDocument' = c
    /\ fileInfo' = c
    /\ htmlEditor' = c
    /\ \E tokens \in BOOLEAN :
        setStatus(IF tokens THEN "AI parsing completed"
                  ELSE IF calls[c].op = "processFile" THEN "Document processed successfully"
                  ELSE "Document parsed successfully", "success", timers)
    /\ documentUrl' = IF calls[c].op = "fetchFromUrl" THEN <<>> ELSE documentUrl
    /\ showLoading(FALSE)
    /\ calls' = [calls EXCEPT ![c].state = "resolved"]
    /\ UNCHANGED parser

\* lines 636-641 and 682-687: the awaited promise of call c rejects
Rejects(c) ==
    /\ pc = "ide"
    /\ calls[c].state = "pending"
    /\ setStatus(IF calls[c].op = "processFile" THEN "Error processing file" ELSE "Error fetching document",
                 "error", timers)
    /\ showLoading(FALSE)
    /\ calls' = [calls EXCEPT ![c].state = "rejected"]
    /\ UNCHANGED <<parser, htmlEditor, currentDocument, fileInfo, documentUrl>>

\* lines 966-968: a callback scheduled by setStatus runs
StatusTimer ==
    /\ pc = "ide"
    /\ timers > 0
    /\ setStatus("Ready", "info", timers - 1)
    /\ UNCHANGED <<parser, loading, htmlEditor, currentDocument, fileInfo, documentUrl, calls>>

IdeNext ==
    \/ TypeUrl
    \/ ProcessFile
    \/ FetchFromUrl
    \/ \E c \in DOMAIN calls : Resolves(c)
    \/ \E c \in DOMAIN calls : Rejects(c)
    \/ StatusTimer

SpecIDE == IdeInit /\ [][IdeNext]_vars

(***************************************************************************)
(* Properties of convertTextToHTML                                         *)
(***************************************************************************)
Returned == pc = "done"

\* the line is the bracket tag `tag' (the scan compares the trimmed, upper-cased line)
IsTagLine(l, tag) == trim(toUpperCase(trim(l))) = tag

\* line k lies between an <IGNORE> line and the next <IGNORE END> line or the end of input
\* (an <IGNORE> line that no <TABLE> line precedes: the scan reads it as a start tag)
Ignored(ls, k) ==
    \E j \in 1..(k - 1) :
        /\ IsTagLine(ls[j], L_IGNORE)
        /\ \A m \in 1..(j - 1) : ~includes(ls[m], TABLE_TAG)
        /\ \A m \in (j + 1)..k : ~IsTagLine(ls[m], EndTagOf(L_IGNORE))

\* the input without the lines of its ignore sections
WithoutIgnored(ls) ==
    LET kept == {k \in 1..Len(ls) : ~Ignored(ls, k)}
        nth(n) == CHOOSE k \in kept : Cardinality({m \in kept : m < k}) = n - 1
    IN  [n \in 1..Cardinality(kept) |-> ls[nth(n)]]

\* C1: the lines between an <IGNORE> line and the next <IGNORE END> line (or the
\* end of input) contribute nothing to the returned HTML: the HTML returned is
\* the HTML returned for the input without those lines.
C1_IgnoredLinesContributeNothing ==
    Returned => html = convertTextToHTML(WithoutIgnored(lines))

\* C2: at most one section is active at a time (currentSection holds one
\* value), and the number of section fragments appended to the output never
\* exceeds the number of lines that opened a section.
C2_FragmentsAtMostOpeners ==
    /\ currentSection \in SectionTypes \cup {NoSection}
    /\ rendered <= opened

TocBlocks(h) == SelectSeq(h, IsToc)

\* the ids of the level 2-4 headings of h, in order
HeadingIds(h) == SeqMap(headingId, SelectSeq(h, IsTocHeading))

\* C3: when the returned HTML holds a table of contents, its link targets and
\* the ids of the level 2-4 headings of the returned HTML correspond one to
\* one: each heading id is the target of exactly one link and each link
\* targets a heading that is present.
C3_TocLinksMatchHeadings ==
    Returned =>
        \A b \in 1..Len(TocBlocks(html)) :
            LET links == TocBlocks(html)[b].ids
                ids   == HeadingIds(html)
            IN  /\ \A n \in 1..Len(ids) : Cardinality({m \in 1..Len(links) : links[m] = Href(ids[n])}) = 1
                /\ \A m \in 1..Len(links) : \E n \in 1..Len(ids) : links[m] = Href(ids[n])

\* C4: cleanupHTML is idempotent: cleaning the HTML it returned returns it unchanged.
C4_CleanupIdempotent ==
    pc = "return" => cleanupHTML(ret) = ret

\* C5: the render of a TOC section is deferred through a placeholder that is
\* replaced after the pass: the returned HTML holds no placeholder.
C5_NoPlaceholderReturned ==
    Returned => \A k \in 1..Len(html) : ~IsPlaceholder(html[k])

\* the section a line opens as a plain trigger phrase (not a bracket tag), NoSection if none
PlainTriggerType(l) ==
    IF trim(l) # <<>> /\ trim(l)[1] \notin {"<", "["} THEN detectSectionType(trim(l)) ELSE NoSection

\* C6: a plain trigger phrase alone on a line, met while no section is
\* active, puts the scan into the section the phrase maps to.
C6_PlainTriggerOpensSection ==
    [][(pc = "scan" /\ i <= Len(lines) /\ currentSection = NoSection /\ PlainTriggerType(lines[i]) # NoSection)
          => currentSection' = PlainTriggerType(lines[i])]_vars

\* the input with [TABLE START] and [TABLE END] written as <TABLE> and <TABLE END>
AsBracketTags(ls) ==
    [k \in 1..Len(ls) |->
        IF ls[k] = L_TABLE_START THEN L_TABLE
        ELSE IF ls[k] = L_BRACKET_TABLE_END THEN L_TABLE_END
        ELSE ls[k]]

\* C7: a block written with [TABLE START] and [TABLE END] is handled like the
\* block written with <TABLE> and <TABLE END>: the returned HTML is the same.
C7_LegacyTableMarkers ==
    Returned => html = convertTextToHTML(AsBracketTags(lines))

\* C8: an end-tag line <X END> met while a section is active closes it: after
\* the line no section is active and the buffer is empty.
C8_EndTagCloses ==
    [][(pc = "scan" /\ i <= Len(lines) /\ currentSection # NoSection /\ isEndTag(an[i].normalizedLine))
          => (currentSection' = NoSection /\ sectionItems' = <<>>)]_vars

\* C9: when the input ends while a section opened by a bracket start tag is
\* active, the HTML returned is the HTML returned for the input with the
\* matching end tag appended.
C9_ImplicitCloseAsExplicit ==
    (Returned /\ currentSection # NoSection /\ openTag # <<>>)
        => html = convertTextToHTML(Append(lines, EndTagOf(openTag)))

(***************************************************************************)
(* Properties of generateId                                                *)
(***************************************************************************)
SlugChars == LowerSet \cup DigitSet \cup {"-"}

\* the characters of text that generateId does not delete: letters, digits, white space, hyphens
Retained(text) ==
    SelectSeq(text, LAMBDA c : c \in LowerSet \cup UpperSet \cup DigitSet \cup {"-"} \/ IsWs(c))

IsGap(c) == c = "-" \/ IsWs(c)

\* C10 as stated: the id has at most 50 characters, all in [a-z0-9-], and
\* neither begins nor ends with a hyphen.
C10_NoOuterHyphen ==
    pc = "return" =>
        /\ Len(ret) <= IdMaxLen
        /\ \A k \in 1..Len(ret) : ret[k] \in SlugChars
        /\ ret # <<>> => (ret[1] # "-" /\ ret[Len(ret)] # "-")

\* C10, amended: the id has at most 50 characters, all in [a-z0-9-]; it begins
\* with a hyphen exactly when the first retained character of the text is
\* white space or a hyphen, and an id shorter than 50 characters ends with a
\* hyphen exactly when the last retained character is white space or a hyphen.
C10_SlugShape ==
    pc = "return" =>
        /\ Len(ret) <= IdMaxLen
        /\ \A k \in 1..Len(ret) : ret[k] \in SlugChars
        /\ (ret = <<>>) <=> (Retained(arg) = <<>>)
        /\ ret # <<>> =>
              /\ (ret[1] = "-") <=> IsGap(Retained(arg)[1])
              /\ Len(ret) < IdMaxLen => ((ret[Len(ret)] = "-") <=> IsGap(Retained(arg)[Len(Retained(arg))]))

\* a text cut at 50 characters whose id begins with a hyphen
C10_CutSlugWithHyphen ==
    /\ pc = "return"
    /\ Len(arg) > IdMaxLen
    /\ Len(ret) = IdMaxLen
    /\ ret[1] = "-"

(***************************************************************************)
(* Properties of the heading levels                                        *)
(***************************************************************************)
HeadingLevels(h) == {h[k].lv : k \in {n \in 1..Len(h) : h[n].k = "h"}}

\* C11: getHeadingLevel returns 2, 3 or 4 for every line, the heading that
\* convertTextToHTML appends for a heading line is an h2, h3 or h4, and
\* convertMarkdownToHTML turns a markdown "# " heading into an h2 (and
\* produces no h1 from any markdown heading).
C11_NoLevelOne ==
    pc = "return" =>
        /\ ret[1] = "getHeadingLevel" => ret[2] \in {2, 3, 4}
        /\ ret[1] = "heading" => (HeadingLevels(ret[2]) # {} /\ HeadingLevels(ret[2]) \subseteq {2, 3, 4})
        /\ ret[1] = "convertMarkdownToHTML" =>
              /\ HeadingLevels(ret[2]) \subseteq {2, 3}
              /\ startsWith(arg, <<"#", " ">>) => HeadingLevels(ret[2]) = {2}

\* a markdown "# " heading has been converted
C11_MarkdownHashConverted ==
    /\ pc = "return"
    /\ ret[1] = "convertMarkdownToHTML"
    /\ startsWith(arg, <<"#", " ">>)
    /\ ret[2][1].k = "h"

(***************************************************************************)
(* Properties of detectSectionType                                         *)
(***************************************************************************)
\* text, upper-cased and trimmed, equals the trigger, equals it followed by ":" or ".",
\* or contains it and is at most 5 characters longer
TriggerMatches(text, trigger) ==
    LET t == trim(toUpperCase(text))
    IN  \/ t = trigger
        \/ t = Append(trigger, ":")
        \/ t = Append(trigger, ".")
        \/ /\ Len(t) <= Len(trigger) + 5
           /\ \E k \in 1..(Len(t) - Len(trigger) + 1) : SubSeq(t, k, k + Len(trigger) - 1) = trigger

\* C12: detectSectionType returns a section only for a text that equals a
\* trigger, equals a trigger followed by ":" or ".", or contains a trigger and
\* is at most 5 characters longer than it, and the section returned is the
\* section of such a trigger; any other text yields no section.
C12_TriggerNearMatch ==
    pc = "return" =>
        (ret # NoSection =>
            \E k \in DOMAIN sectionMappings : sectionMappings[k][2] = ret /\ TriggerMatches(arg, sectionMappings[k][1]))

\* a sentence that contains FAQ and is more than 5 characters longer has been classified: no section
C12_LongSentenceWithFaq ==
    /\ pc = "return"
    /\ arg = <<"S","E","E"," ","T","H","E"," ","F","A","Q"," ","F","O","R"," ","Y","O","U">>
    /\ ret = NoSection

(***************************************************************************)
(* Properties of processTableItems                                         *)
(***************************************************************************)
\* the table token of a returned fragment
TableOf(fragment) == fragment[Len(fragment)]

\* C13: the first buffered row is the header row, every later row is a data
\* row, and a data row with fewer cells than the header is rendered with as
\* many cells as the header has: its own cells first, then empty cells.
C13_ShortRowsPadded ==
    pc = "return" =>
        LET table   == TableOf(ret)
            headers == tableColumns(arg[1])
        IN  /\ table.k = "table"
            /\ table.items = headers
            /\ Len(table.rows) = Len(arg) - 1
            /\ \A n \in 1..Len(table.rows) :
                  LET cells == tableColumns(arg[n + 1])
                      row   == table.rows[n]
                  IN  Len(cells) < Len(headers) =>
                          /\ Len(row) = Len(headers)
                          /\ SubSeq(row, 1, Len(cells)) = cells
                          /\ \A k \in (Len(cells) + 1)..Len(row) : row[k] = <<>>

\* header A|B|C and data row 1|2 have been rendered: the cells are 1, 2 and an empty cell
C13_ThirdCellEmpty ==
    /\ pc = "return"
    /\ arg = <<(<<"A","|","B","|","C">>), (<<"1","|","2">>)>>
    /\ TableOf(ret).rows = << <<(<<"1">>), (<<"2">>), <<>> >> >>

\* the delimiter of a row: "|" when the row has a pipe, else tab or wide gap, else none
delimiterOf(item) ==
    IF includes(item, <<"|">>) THEN "pipe"
    ELSE IF includes(item, <<"\t">>) \/ HasWideGap(item) THEN "gap"
    ELSE "single"

\* the cells of a row split with a given delimiter
splitWith(delimiter, item) ==
    CASE delimiter = "pipe"   -> Columns(SplitChar(item, "|"))
      [] delimiter = "gap"    -> Columns(SplitTabsFrom(item, 1, <<>>, <<>>))
      [] delimiter = "single" -> <<item>>

\* C14: the delimiter of a table block is the delimiter of its first row, and
\* every row of the block is split with that delimiter.
C14_DelimiterFixedPerBlock ==
    pc = "return" =>
        LET table     == TableOf(ret)
            delimiter == delimiterOf(arg[1])
        IN  /\ table.items = splitWith(delimiter, arg[1])
            /\ \A n \in 1..Len(table.rows) :
                  table.rows[n] = padRow(splitWith(delimiter, arg[n + 1]), Len(table.items))

(***************************************************************************)
(* Properties of processFAQItems                                           *)
(***************************************************************************)
\* a buffered line that starts a question
IsQuestion(item) == endsWith(item, <<"?">>) \/ isLikelyQuestion(item)

\* the group that ends before line k: a question with its answers, or answers alone
faqGroup(question, answers) ==
    IF question # <<>> THEN <<H(3, generateId(question), question)>> \o SeqMap(P, answers)
    ELSE SeqMap(P, answers)

\* the buffered lines grouped in order, every group written out
RECURSIVE faqGroupsFrom(_, _, _, _)
faqGroupsFrom(items, k, question, answers) ==
    IF k > Len(items) THEN faqGroup(question, answers)
    ELSE IF IsQuestion(items[k])
    THEN faqGroup(question, answers) \o faqGroupsFrom(items, k + 1, items[k], <<>>)
    ELSE faqGroupsFrom(items, k + 1, question, Append(answers, items[k]))

\* C15: processFAQItems writes every question as an <h3> followed by its
\* answers as <p> elements in order, and the answer lines that precede the
\* first question as plain paragraphs.
C15_FaqGroupsAllWritten ==
    pc = "return" => ret = faqGroupsFrom(arg, 1, <<>>, <<>>)

(***************************************************************************)
(* Properties of the steps template                                        *)
(***************************************************************************)
\* the <li> of the steps fragment for buffered line n: its <h3> and its <p>
StepTitle(fragment, n) == fragment[2 * n + 1].tx
StepDescription(fragment, n) == fragment[2 * n + 2].tx

\* C16: the steps template writes one list item per buffered line; a line
\* without ":" gets the title "Step N", N being its position in the buffer,
\* and the whole line as description; a line with text on both sides of its
\* first ":" gets the text before it as title and the text after it as
\* description.
C16_StepNForUntitledLine ==
    pc = "return" =>
        /\ Len(ret) = 2 * Len(arg) + 3
        /\ \A n \in 1..Len(arg) :
              LET colon == IndexOfFrom(arg[n], <<":">>, 1)
              IN  /\ colon = 0 =>
                        /\ StepTitle(ret, n) = STEP_WORD \o Decimal(n)
                        /\ StepDescription(ret, n) = arg[n]
                  /\ (colon > 1 /\ trim(Drop(arg[n], colon)) # <<>>) =>
                        /\ StepTitle(ret, n) = SubSeq(arg[n], 1, colon - 1)
                        /\ StepDescription(ret, n) = trim(Drop(arg[n], colon))

(***************************************************************************)
(* Properties of the sections of convertTextToHTML                         *)
(***************************************************************************)
\* the loop is at the end tag of the bracket tag that opened the current section
AtOwnEndTag ==
    /\ At("endTag")
    /\ openTag # <<>>
    /\ an[i].normalizedLine = EndTagOf(openTag)

\* C17: when the end tag of a section other than ignore is read, the fragment
\* of the section template for the buffer is appended to the output, also
\* when the buffer is empty.
C17_EmptySectionRendered ==
    [][(AtOwnEndTag /\ currentSection # "ignore")
          => html' = html \o processSectionContent(currentSection, sectionItems)]_vars

(***************************************************************************)
(* Properties of AIDocumentParser                                          *)
(***************************************************************************)
\* the AI call of the settled parse succeeded
AISucceeded == arg.groqAvailable /\ arg.response = "ok"

AtTriggerHeading ==
    /\ At("heading")
    /\ an[i].isHeading
    /\ an[i].sectionType # NoSection
    /\ ~an[i].isStartTag

\* the <h..> elements of h that carry the text
HeadingsWith(h, text) == {k \in DOMAIN h : h[k].k = "h" /\ h[k].tx = text}

\* the elements of h that carry the text
ElementsWith(h, text) == {k \in DOMAIN h : h[k].tx = text}

Rewritten(text) == formatRichText(text) = text

\* C20: every paragraph, every list item and every line of a rendered
\* section in the output has its bold, italic and link markdown rewritten.
C20_InlineMarkdownRewritten ==
    \A k \in DOMAIN html :
        /\ html[k].k \in {"p", "li"} => Rewritten(html[k].tx)
        /\ html[k].k \in {"kta", "bullets"} => \A n \in DOMAIN html[k].items : Rewritten(html[k].items[n])

(***************************************************************************)
(* Properties of the FAQ section of convertTextToHTML                      *)
(***************************************************************************)
\* the document is an FAQ trigger followed by questions, each with one answer line
IsFaqPairs(doc) ==
    /\ Len(doc) >= 3
    /\ Len(doc) % 2 = 1
    /\ doc[1] \in FaqTriggers
    /\ \A k \in 2..Len(doc) : IF k % 2 = 0 THEN doc[k] \in {L_QUESTION, L_QUESTION2} ELSE doc[k] = L_PROSE

IsFaqOpen(t) == t.k = "faqopen"
IsFaqEntry(t) == (t.k = "h" /\ t.lv = 3) \/ t.k = "p"

\* C21: the HTML returned for an FAQ section of questions, each followed by
\* its answer, holds one FAQ block, and its <h3> and <p> elements are the
\* questions and answers of the section, all of them, in the original order.
C21_FaqSectionComplete ==
    (Returned /\ IsFaqPairs(lines)) =>
        /\ Len(SelectSeq(html, IsFaqOpen)) = 1
        /\ SelectSeq(html, IsFaqEntry) = faqGroupsFrom(Tail(lines), 1, <<>>, <<>>)

(***************************************************************************)
(* Properties of the auto-detected table of convertTextToHTML              *)
(***************************************************************************)
\* the last row of the run of table rows and blank lines that holds line j; last is the last row seen
RECURSIVE runEnd(_, _, _)
runEnd(a, j, last) ==
    IF j > Len(a) THEN last
    ELSE IF a[j].line = <<>> THEN runEnd(a, j + 1, last)
    ELSE IF a[j].isTableRow THEN runEnd(a, j + 1, j)
    ELSE last

\* the loop is at the first row of a run of at least two table rows, outside any section
AtTableRun ==
    /\ At("tableRow")
    /\ currentSection = NoSection
    /\ Len(collectTableRows(an, i)) > 1

\* C22: the step on the first row of a run of table rows writes one table and
\* moves the scan to the first line after the last row of the run.
C22_ScanResumesAfterRun ==
    [][AtTableRun =>
          /\ i' = runEnd(an, i, i) + 1
          /\ html' = closeOpenList(cur).html \o processTableItems(collectTableRows(an, i))]_vars

(***************************************************************************)
(* Properties of analyzeTextStructure                                      *)
(***************************************************************************)
\* line k of the document is a list item of the given kind
IsItemOfKind(doc, k, kind) ==
    /\ ~isHeading(trim(doc[k]))
    /\ isListItem(trim(doc[k]))
    /\ getListType(trim(doc[k])) = kind

\* C23: a document that is one run of list items of one kind yields one list
\* block holding all of them, and no list block extends over a list item of
\* the other kind.
C23_ListBlocksFollowRuns ==
    pc = "return" =>
        /\ \A kind \in {"ordered", "unordered"} :
              (\A k \in DOMAIN arg : IsItemOfKind(arg, k, kind)) =>
                  /\ Len(ret) = 1
                  /\ Len(ret[1].items) = Len(arg)
        /\ \A n \in DOMAIN ret :
              \A k \in ret[n].startLine..ret[n].endLine :
                  \A kind \in {"ordered", "unordered"} \ {ret[n].type} : ~IsItemOfKind(arg, k, kind)

(***************************************************************************)
(* Properties of the routing of the lines of convertTextToHTML             *)
(***************************************************************************)
\* the loop is at a line that reaches the tests of the routing
AtRoutedLine ==
    /\ pc = "scan"
    /\ i <= Len(lines)
    /\ trim(lines[i]) # <<>>
    /\ ~includes(lines[i], TABLE_TAG)
    /\ ~includes(lines[i], TABLE_END_WORDS)

\* the first test that matches the line, in the order heading or bracket tag, table row, list item, prose
routeOf(line) ==
    IF isHeading(line) \/ isStartTag(toUpperCase(line)) \/ isEndTag(toUpperCase(line)) THEN "headingOrTag"
    ELSE IF isTableRow(line) THEN "tableRow"
    ELSE IF isListItem(line) THEN "listItem"
    ELSE "prose"

IsLi(t) == t.k = "li"

C25_ServerNoLevelOne ==
    pc = "return" => \A n \in DOMAIN ret[2] : ret[2][n][1] \in {2, 3, 4}

(***************************************************************************)
(* Termination of convertTextToHTML                                        *)
(***************************************************************************)
\* C26: every iteration of the loop moves the line index forward, by one or
\* over the lines that a look-ahead has read and never beyond the line that
\* follows the end of the input, and convertTextToHTML returns.
C26_ScanTerminates ==
    /\ [][(pc = "scan" /\ i <= Len(lines)) => (i' > i /\ i' <= Len(lines) + 2 /\ pc' = "scan")]_vars
    /\ <>(pc = "done")

\* the scan has skipped an auto-detected table of two rows in one pass and returned
C26_ReturnedAfterJumps ==
    /\ pc = "done"
    /\ lines = <<L_ROW, L_ROW>>
    /\ Len(html) > 0
    /\ i = 3
    /\ rendered = 0

(***************************************************************************)
(* Properties of the status line and of overlapping calls                  *)
(***************************************************************************)
\* a step in which an operation of the page calls setStatus itself
ExplicitSetStatus ==
    \/ ProcessFile
    \/ FetchFromUrl
    \/ \E c \in DOMAIN calls : Resolves(c) \/ Rejects(c)

\* C27: while the status line shows a message of type 'error', the message
\* changes only in a step in which an operation calls setStatus; no callback
\* scheduled by an earlier message replaces it.
C27_ErrorMessageStays ==
    [][statusType = "error" => (statusText' = statusText \/ ExplicitSetStatus)]_vars

InFlight == {c \in DOMAIN calls : calls[c].state = "pending"}

\* C28: once no call is in flight, the editor and currentDocument hold the
\* document of the call that started last (when that call produced one), and
\* the loading indicator is visible while a call is in flight.
C28_LastStartedCallWins ==
    /\ (calls # <<>> /\ InFlight = {} /\ calls[Len(calls)].state = "resolved") =>
           (htmlEditor = Len(calls) /\ currentDocument = Len(calls))
    /\ InFlight # {} => loading

(***************************************************************************)
(* Consistency of the scan state                                           *)
(***************************************************************************)
\* C29: at every point of the scan the section buffer is empty when no
\* section is active, a list container is open only when no section is
\* active, and a list container is open exactly when a list type is recorded.
C29_ScanStateConsistent ==
    pc = "scan" =>
        /\ currentSection = NoSection => sectionItems = <<>>
        /\ inList => currentSection = NoSection
        /\ inList <=> currentListType # "null"

\* a list was open when the <TOC> tag opened a section, and the section has
\* buffered the item that follows the tag
C29_ItemBufferedInSection ==
    /\ pc = "scan"
    /\ lines = <<L_ITEM, L_TOC, L_ITEM>>
    /\ i = 4
    /\ currentSection = "toc"
    /\ sectionItems # <<>>
    /\ ~inList

(***************************************************************************)
(* Order of the fragments                                                  *)
(***************************************************************************)
\* lines read earlier wait in the buffer of a section that will be written (the TOC block,
\* written where its placeholder stands, and the ignored section, never written, apart)
Buffered ==
    /\ pc = "scan"
    /\ sectionItems # <<>>
    /\ currentSection \notin {NoSection, "ignore", "toc"}

\* C30: the fragments are written in the order of the lines they come from:
\* while earlier lines wait in the buffer of a section, a pass of the loop
\* that writes to the HTML writes the fragment of the buffered lines first,
\* also when the pass reads a <TABLE> block.
C30_FragmentsInLineOrder ==
    [][(Buffered /\ pc' = "scan" /\ html' # html) =>
          LET written == html \o processSectionContent(currentSection, sectionItems)
          IN  Len(html') >= Len(written) /\ SubSeq(html', 1, Len(written)) = written]_vars

====
